---- MODULE Spec2Model ----
(***************************************************************************)
(* Verification model of the Market Signal Dashboard backend               *)
(* (apps-script.gs): the daily synchronisation pipeline syncData_web, its  *)
(* readers, validators, merge, archive writer, retention sweep and error   *)
(* ledger.                                                                 *)
(*                                                                         *)
(* Values.  Every sheet cell and every JavaScript value held in a record   *)
(* field is a tagged value [t, n, s]:                                      *)
(*   t = "num"   a number n                                                *)
(*   t = "str"   the string s ("" is the blank cell)                       *)
(*   t = "date"  a Date object for instant n                               *)
(*   t = "day"   the 'yyyy-MM-dd' string of calendar day n; two such       *)
(*               strings compare as their days do                          *)
(*   t = "fixed" the string produced by toFixed(1) for n tenths            *)
(*   t = "undef" undefined,  t = "null" null                               *)
(* Strings other than "" stand for text that is not a numeric literal.     *)
(***************************************************************************)
EXTENDS Integers, Sequences, FiniteSets, TLC

VARIABLES
    source,     \* the source spreadsheet: one table per SOURCE_TABS entry
    archive,    \* the SignalArchive_web sheet: [exists, grid]
    ledger,     \* the SyncErrors_web sheet: [exists, grid]
    today,      \* the calendar day of the run (new Date())
    run,        \* what the last execution of syncData_web did
    stageIn,    \* merge output handed to the stages that follow the merge
    dedupIn,    \* argument of removeDuplicateTickers
    dedupOut,   \* its result
    history,    \* [err, before] of each execution so far, oldest first
    response,   \* what the last doGet call gave its caller
    pending,    \* row numbers the sweep in progress has still to delete
    app         \* the dashboard in the browser: the page, or its service worker

vars == <<source, archive, ledger, today, run, stageIn, dedupIn, dedupOut, history,
          response, pending, app>>

----------------------------------------------------------------------------
(* JavaScript values *)

Num(n)     == [t |-> "num",   n |-> n, s |-> ""]
Txt(s)     == [t |-> "str",   n |-> 0, s |-> s]
DateObj(n) == [t |-> "date",  n |-> n, s |-> ""]
DayStr(n)  == [t |-> "day",   n |-> n, s |-> ""]
Fixed1(n)  == [t |-> "fixed", n |-> n, s |-> ""]
Blank      == Txt("")
Undef      == [t |-> "undef", n |-> 0, s |-> ""]
Null       == [t |-> "null",  n |-> 0, s |-> ""]

\* ToBoolean(v): the truthiness tested by `v && ...`, `!v` and `a || b`
Truthy(v) ==
    CASE v.t = "num"  -> v.n # 0
      [] v.t = "str"  -> v.s # ""
      [] v.t \in {"undef", "null"} -> FALSE
      [] OTHER -> TRUE

\* isNaN(v): ToNumber(v) is NaN
IsNaN(v) ==
    CASE v.t = "num"   -> FALSE
      [] v.t = "str"   -> v.s # ""
      [] v.t = "date"  -> FALSE
      [] v.t = "null"  -> FALSE
      [] v.t = "fixed" -> FALSE
      [] OTHER -> TRUE

\* ToNumber(v) where it is not NaN; fixed strings are n tenths
ToNumber(v) == IF v.t \in {"num", "date"} THEN v.n ELSE 0

\* new Date(v): [valid, ms]; an invalid Date has time value NaN
NewDate(v) ==
    CASE v.t \in {"num", "date"} -> [valid |-> TRUE, ms |-> v.n]
      [] v.t = "null" -> [valid |-> TRUE, ms |-> 0]
      [] OTHER -> [valid |-> FALSE, ms |-> 0]

\* a < b on two Date objects: false whenever either time value is NaN
DateLess(a, b) == a.valid /\ b.valid /\ a.ms < b.ms

\* what setValues stores for a value: undefined and null leave the cell blank
ToCell(v) == IF v.t \in {"undef", "null"} THEN Blank ELSE v

----------------------------------------------------------------------------
(* Results of calls that may throw *)

Ok(v)      == [err |-> "none", val |-> v]
Throw(msg) == [err |-> msg, val |-> <<>>]

SourceTabs == [FINAL_SIGNALS |-> "FinalSignals", TECHNICAL |-> "TechnicalAnalysis",
               FUNDAMENTALS |-> "Fundamentals", SENTIMENT |-> "MarketSentiment",
               COMPANY_NAMES |-> "BuySignals_Working"]

NotFound(tab) == "Source tab not found: " \o tab

----------------------------------------------------------------------------
(* Readers.  A table of the source spreadsheet is [exists, rows]; rows are  *)
(* the data rows below the header, each already keyed by the reader's       *)
(* field names (the header holds every column the reader looks up).         *)

\* the reader without its filter
getFinalSignals_unfiltered(src) ==
    IF ~src.signals.exists THEN Throw(NotFound(SourceTabs.FINAL_SIGNALS))
    ELSE Ok(src.signals.rows)

\* SOURCE_TABS.FINAL_SIGNALS -> BUY rows with a non-empty ticker
getFinalSignals(src) ==
    IF ~src.signals.exists THEN Throw(NotFound(SourceTabs.FINAL_SIGNALS))
    ELSE Ok(SelectSeq(src.signals.rows,
                      LAMBDA signal : Truthy(signal.ticker) /\ signal.decision = Txt("BUY")))

getTechnicalData(src) ==
    IF ~src.technical.exists THEN Throw(NotFound(SourceTabs.TECHNICAL))
    ELSE Ok(SelectSeq(src.technical.rows, LAMBDA tech : Truthy(tech.ticker)))

getFundamentals(src) ==
    IF ~src.fundamentals.exists THEN Throw(NotFound(SourceTabs.FUNDAMENTALS))
    ELSE Ok(SelectSeq(src.fundamentals.rows, LAMBDA fund : Truthy(fund.ticker)))

\* the reader taking the first data row
getMarketSentiment_firstRow(src) ==
    IF ~src.sentiment.exists THEN Throw(NotFound(SourceTabs.SENTIMENT))
    ELSE IF Len(src.sentiment.rows) = 0
         THEN Throw("TypeError: Cannot read properties of undefined")
         ELSE Ok(src.sentiment.rows[1])

\* the last data row; with no data row rows[rows.length - 1] is undefined and
\* reading its first property throws a TypeError
getMarketSentiment(src) ==
    IF ~src.sentiment.exists THEN Throw(NotFound(SourceTabs.SENTIMENT))
    ELSE IF Len(src.sentiment.rows) = 0
         THEN Throw("TypeError: Cannot read properties of undefined")
         ELSE Ok(src.sentiment.rows[Len(src.sentiment.rows)])

\* ticker -> name, as the sequence of [ticker, name] pairs that were stored;
\* a later row for the same ticker overwrites the earlier one
getCompanyNameMap(src) ==
    IF ~src.names.exists THEN Throw(NotFound(SourceTabs.COMPANY_NAMES))
    ELSE Ok(SelectSeq(src.names.rows,
                      LAMBDA row : Truthy(row.ticker) /\ Truthy(row.name)))

\* companyNames[ticker]: the last stored pair for the ticker, else undefined
NameLookup(companyNames, ticker) ==
    LET hits == {i \in 1..Len(companyNames) : companyNames[i].ticker = ticker}
    IN  IF hits = {} THEN Undef
        ELSE companyNames[CHOOSE i \in hits : \A j \in hits : j <= i].name

----------------------------------------------------------------------------
(* Validation gates *)

\* obj.hasOwnProperty(field); a record's own properties are its fields
HasOwnProperty(obj, field) == field \in DOMAIN obj

RequiredSignalFields ==
    {"ticker", "decision", "sellTarget", "confidence", "riskLevel", "summary"}

\* pre-merge gate; the sentiment check only warns
validateData(finalSignals, technicalData, fundamentals, marketSentiment) ==
    IF Len(finalSignals) = 0 THEN FALSE
    ELSE \A field \in RequiredSignalFields : HasOwnProperty(finalSignals[1], field)

RequiredEnrichedFields ==
    {"ticker", "companyName", "decision", "sellTarget", "confidence", "riskLevel",
     "summary", "currentPrice"}

\* post-merge gate
validateEnrichedData(enrichedData) ==
    IF Len(enrichedData) = 0 THEN FALSE
    ELSE \A field \in RequiredEnrichedFields : HasOwnProperty(enrichedData[1], field)

----------------------------------------------------------------------------
(* Deduplication *)

\* position of the ticker's entry in tickerMap (insertion order), 0 if none
EntryOf(tickerMap, ticker) ==
    IF \E i \in 1..Len(tickerMap) : tickerMap[i].ticker = ticker
    THEN CHOOSE i \in 1..Len(tickerMap) : tickerMap[i].ticker = ticker
    ELSE 0

\* one iteration of signals.forEach: store the signal when the ticker has no
\* entry yet or the stored entry's Date is less than this signal's Date
DedupStep(tickerMap, signal) ==
    LET at == EntryOf(tickerMap, signal.ticker)
        timestamp == NewDate(signal.timestamp)
    IN  IF at = 0 THEN Append(tickerMap, signal)
        ELSE IF DateLess(NewDate(tickerMap[at].timestamp), timestamp)
             THEN [tickerMap EXCEPT ![at] = signal]
             ELSE tickerMap

RECURSIVE DedupFrom(_, _, _)
DedupFrom(signals, i, tickerMap) ==
    IF i > Len(signals) THEN tickerMap
    ELSE DedupFrom(signals, i + 1, DedupStep(tickerMap, signals[i]))

\* every signal kept
removeDuplicateTickers_keepAll(signals) == signals

\* Object.values(tickerMap): the entries in insertion order of their tickers
removeDuplicateTickers(signals) == DedupFrom(signals, 1, <<>>)

----------------------------------------------------------------------------
(* Merge *)

\* rec.name, undefined when the object has no such property
Prop(rec, name) == IF name \in DOMAIN rec THEN rec[name] ELSE Undef

\* map[ticker] || {} for a map filled by forEach: the last record of the ticker
LookupOrEmpty(records, ticker) ==
    LET hits == {i \in 1..Len(records) : records[i].ticker = ticker}
    IN  IF hits = {} THEN <<>>
        ELSE records[CHOOSE i \in hits : \A j \in hits : j <= i]

\* a / b rounded to the nearest integer, halves away from zero (b # 0)
RoundDiv(a, b) ==
    LET absA == IF a < 0 THEN -a ELSE a
        absB == IF b < 0 THEN -b ELSE b
        q    == (2 * absA + absB) \div (2 * absB)
    IN  IF (a < 0) = (b < 0) THEN q ELSE -q

\* ((sellTarget - currentPrice) / currentPrice * 100).toFixed(1), or null
Upside(currentPrice, sellTarget) ==
    IF Truthy(currentPrice) /\ Truthy(sellTarget)
    THEN IF IsNaN(currentPrice) \/ IsNaN(sellTarget) THEN Txt("NaN")
         ELSE Fixed1(RoundDiv((ToNumber(sellTarget) - ToNumber(currentPrice)) * 1000,
                              ToNumber(currentPrice)))
    ELSE Null

\* the object literal enrichedRow, given the value its Date property receives
EnrichedRow(signal, tech, fund, marketSentiment, companyNames, dateValue) ==
    LET ticker == signal.ticker
        name   == NameLookup(companyNames, ticker)
    IN  [Date |-> dateValue,
         Timestamp |-> signal.timestamp,
         Ticker |-> ticker,
         CompanyName |-> IF Truthy(name) THEN name ELSE ticker,
         Decision |-> signal.decision,
         SellTarget |-> signal.sellTarget,
         TargetHorizon |-> signal.targetHorizon,
         Confidence |-> signal.confidence,
         RiskLevel |-> signal.riskLevel,
         Summary |-> signal.summary,
         MacroMood |-> signal.macroMood,
         TechScore |-> signal.techScore,
         CurrentPrice |-> Prop(tech, "currentPrice"),
         Week52High |-> Prop(tech, "week52High"),
         Week52Low |-> Prop(tech, "week52Low"),
         RSI |-> Prop(tech, "rsi"),
         VolumeSpike |-> Prop(tech, "volumeSpike"),
         MACD |-> Prop(tech, "macd"),
         GapStatus |-> Prop(tech, "gapStatus"),
         MA50 |-> Prop(tech, "ma50"),
         MA200 |-> Prop(tech, "ma200"),
         ATR |-> Prop(tech, "atr"),
         TechnicalScore |-> Prop(tech, "technicalScore"),
         MarketCap |-> Prop(fund, "marketCap"),
         PERatio |-> Prop(fund, "peRatio"),
         RevenueGrowth |-> Prop(fund, "revenueGrowth"),
         ProfitMargin |-> Prop(fund, "profitMargin"),
         ROE |-> Prop(fund, "roe"),
         EPSGrowth |-> Prop(fund, "epsGrowth"),
         DebtToEquity |-> Prop(fund, "debtToEquity"),
         PEG |-> Prop(fund, "peg"),
         EVEbitda |-> Prop(fund, "evEbitda"),
         FCFShare |-> Prop(fund, "fcfShare"),
         Sector |-> Prop(fund, "sector"),
         Industry |-> Prop(fund, "industry"),
         CurrentRatio |-> Prop(fund, "currentRatio"),
         Upside |-> Upside(Prop(tech, "currentPrice"), signal.sellTarget),
         MarketMood |-> marketSentiment.marketMood,
         MacroStrength |-> marketSentiment.macroStrength,
         VolatilityLevel |-> marketSentiment.volatilityLevel,
         SentimentSummary |-> marketSentiment.summary,
         SentimentDate |-> marketSentiment.date]

\* identifiers bound inside mergeSignalData: its parameters and its locals
MergeLocals ==
    {"finalSignals", "technicalData", "fundamentals", "marketSentiment", "companyNames",
     "enrichedData", "uniqueSignals", "techMap", "fundMap", "signal", "ticker", "tech",
     "fund", "companyName", "upside", "enrichedRow"}

\* identifiers bound at the top level of the script
ScriptGlobals ==
    {"SOURCE_SHEET_ID", "WEBSITE_SHEET_ID", "SOURCE_TABS", "DESTINATION_TABS",
     "syncData_web", "validateData", "validateEnrichedData", "getFinalSignals",
     "getTechnicalData", "getFundamentals", "getMarketSentiment", "getCompanyNameMap",
     "mergeSignalData", "removeDuplicateTickers", "saveToArchive", "cleanOldArchiveData",
     "logSyncError", "doGet", "testSync", "setupDailyTrigger"}

\* the rows the forEach over uniqueSignals builds when `dateString` has value d
MergeRows(uniqueSignals, technicalData, fundamentals, marketSentiment, companyNames, d) ==
    [i \in 1..Len(uniqueSignals) |->
        EnrichedRow(uniqueSignals[i],
                    LookupOrEmpty(technicalData, uniqueSignals[i].ticker),
                    LookupOrEmpty(fundamentals, uniqueSignals[i].ticker),
                    marketSentiment, companyNames, d)]

\* a merge that takes the date of its rows from the clock
mergeSignalData_clockDate(finalSignals, technicalData, fundamentals, marketSentiment, companyNames) ==
    Ok(MergeRows(removeDuplicateTickers(finalSignals), technicalData, fundamentals,
                 marketSentiment, companyNames, DayStr(today)))

\* mergeSignalData: the first enrichedRow literal evaluates the identifier
\* dateString, which is bound neither in the function nor at the top level
\* (the run's dateString is a const local to syncData_web), so it throws
mergeSignalData(finalSignals, technicalData, fundamentals, marketSentiment, companyNames) ==
    LET uniqueSignals == removeDuplicateTickers(finalSignals)
    IN  IF Len(uniqueSignals) = 0 THEN Ok(<<>>)
        ELSE IF "dateString" \in MergeLocals \cup ScriptGlobals
             THEN Ok(MergeRows(uniqueSignals, technicalData, fundamentals,
                               marketSentiment, companyNames, Undef))
             ELSE Throw("ReferenceError: dateString is not defined")

----------------------------------------------------------------------------
(* Per-row filter *)

\* numeric field check `v && (isNaN(v) || v <= 0)`
InvalidPositive(v) == Truthy(v) /\ (IsNaN(v) \/ ToNumber(v) <= 0)

\* `v && (isNaN(v) || v < 0 || v > 100)`
InvalidConfidence(v) == Truthy(v) /\ (IsNaN(v) \/ ToNumber(v) < 0 \/ ToNumber(v) > 100)

\* `v && !(v instanceof Date) && isNaN(new Date(v).getTime())`
InvalidTimestamp(v) == Truthy(v) /\ v.t # "date" /\ ~NewDate(v).valid

\* the predicate of enrichedData.filter
RowPasses(row) ==
    /\ ~InvalidPositive(row.CurrentPrice)
    /\ ~InvalidPositive(row.SellTarget)
    /\ ~InvalidConfidence(row.Confidence)
    /\ ~InvalidTimestamp(row.Timestamp)

----------------------------------------------------------------------------
(* Archive sheet: [exists, grid]; grid is the sheet's rows top to bottom,   *)
(* each a tuple of cells.  Faults name the Spreadsheet call that throws.    *)

ArchiveHeaders ==
    <<"Date", "Timestamp", "Ticker", "CompanyName", "Decision", "SellTarget",
      "TargetHorizon", "Confidence", "RiskLevel", "Summary", "MacroMood", "TechScore",
      "CurrentPrice", "Week52High", "Week52Low", "RSI", "VolumeSpike", "MACD",
      "GapStatus", "MA50", "MA200", "ATR", "TechnicalScore", "MarketCap", "PERatio",
      "RevenueGrowth", "ProfitMargin", "ROE", "EPSGrowth", "DebtToEquity", "PEG",
      "EVEbitda", "FCFShare", "Sector", "Industry", "CurrentRatio", "Upside",
      "MarketMood", "MacroStrength", "VolatilityLevel", "SentimentSummary",
      "SentimentDate">>

HeaderRow == [i \in 1..Len(ArchiveHeaders) |-> Txt(ArchiveHeaders[i])]

\* the properties read by enrichedData.map, in the order of the array literal
RowOrder ==
    <<"Date", "Timestamp", "Ticker", "CompanyName", "Decision", "SellTarget",
      "TargetHorizon", "Confidence", "RiskLevel", "Summary", "MacroMood", "TechScore",
      "CurrentPrice", "Week52High", "Week52Low", "RSI", "VolumeSpike", "MACD",
      "GapStatus", "MA50", "MA200", "ATR", "TechnicalScore", "MarketCap", "PERatio",
      "RevenueGrowth", "ProfitMargin", "ROE", "EPSGrowth", "DebtToEquity", "PEG",
      "EVEbitda", "FCFShare", "Sector", "Industry", "CurrentRatio", "Upside",
      "MarketMood", "MacroStrength", "VolatilityLevel", "SentimentSummary",
      "SentimentDate">>

\* one element of rowsToAdd, as setValues stores it
RowValues(row) == [i \in 1..Len(RowOrder) |-> ToCell(Prop(row, RowOrder[i]))]

\* the rows in the reverse of the input's order
RowsToAdd_reversed(enrichedData) ==
    [i \in 1..Len(enrichedData) |-> RowValues(enrichedData[Len(enrichedData) + 1 - i])]

RowsToAdd(enrichedData) == [i \in 1..Len(enrichedData) |-> RowValues(enrichedData[i])]

\* range.setValues(values) with the range starting at sheet row `first`:
\* rows first .. first + Len(values) - 1 are overwritten or created, and the
\* rows between the last row and a range further down are left empty
SetValues(grid, first, values) ==
    [i \in 1..(IF first + Len(values) - 1 > Len(grid)
               THEN first + Len(values) - 1 ELSE Len(grid)) |->
        IF i >= first /\ i < first + Len(values) THEN values[i - first + 1]
        ELSE IF i <= Len(grid) THEN grid[i]
        ELSE [c \in 1..Len(values[1]) |-> Blank]]

ArchiveFault == "Exception: archive spreadsheet call failed"

\* saveToArchive with the range starting at the last row instead of below it
saveToArchive_atLastRow(ar, enrichedData, fault) ==
    IF fault = "open" THEN [err |-> ArchiveFault, archive |-> ar]
    ELSE LET sheet == IF ar.exists THEN ar
                      ELSE [exists |-> TRUE, grid |-> SetValues(<<>>, 1, <<HeaderRow>>)]
             rowsToAdd == RowsToAdd(enrichedData)
         IN  IF Len(rowsToAdd) > 0
             THEN IF fault = "write" THEN [err |-> ArchiveFault, archive |-> sheet]
                  ELSE [err |-> "none",
                        archive |-> [sheet EXCEPT
                            !.grid = SetValues(sheet.grid, Len(sheet.grid), rowsToAdd)]]
             ELSE [err |-> "none", archive |-> sheet]

\* saveToArchive writing the header row on every call, below the last row
\* when the sheet is already there
saveToArchive_headerEachCall(ar, enrichedData, fault) ==
    IF fault = "open" THEN [err |-> ArchiveFault, archive |-> ar]
    ELSE LET sheet == [exists |-> TRUE,
                       grid |-> SetValues(ar.grid, Len(ar.grid) + 1, <<HeaderRow>>)]
             rowsToAdd == RowsToAdd(enrichedData)
         IN  IF Len(rowsToAdd) > 0
             THEN IF fault = "write" THEN [err |-> ArchiveFault, archive |-> sheet]
                  ELSE [err |-> "none",
                        archive |-> [sheet EXCEPT
                            !.grid = SetValues(sheet.grid, Len(sheet.grid) + 1, rowsToAdd)]]
             ELSE [err |-> "none", archive |-> sheet]

\* saveToArchive(enrichedData, dateString): [err, archive]
saveToArchive(ar, enrichedData, fault) ==
    IF fault = "open" THEN [err |-> ArchiveFault, archive |-> ar]
    ELSE LET sheet == IF ar.exists THEN ar
                      ELSE [exists |-> TRUE, grid |-> SetValues(<<>>, 1, <<HeaderRow>>)]
             rowsToAdd == RowsToAdd(enrichedData)
         IN  IF Len(rowsToAdd) > 0
             THEN IF fault = "write" THEN [err |-> ArchiveFault, archive |-> sheet]
                  ELSE [err |-> "none",
                        archive |-> [sheet EXCEPT
                            !.grid = SetValues(sheet.grid, Len(sheet.grid) + 1, rowsToAdd)]]
             ELSE [err |-> "none", archive |-> sheet]

RetentionDays == 30

\* headers.indexOf('Date'), 0 when absent (the code's -1)
DateColumn(grid) ==
    IF Len(grid) > 0 /\ \E c \in 1..Len(grid[1]) : grid[1][c] = Txt("Date")
    THEN CHOOSE c \in 1..Len(grid[1]) :
            grid[1][c] = Txt("Date") /\ \A d \in 1..(c - 1) : grid[1][d] # Txt("Date")
    ELSE 0

\* the comparison with rows dated at the cutoff counted as old
DayLess_orEqual(rowDate, cutoffString) == rowDate.t = "day" /\ rowDate.n <= cutoffString.n

\* rowDate < cutoffString: both 'yyyy-MM-dd' strings
DayLess(rowDate, cutoffString) == rowDate.t = "day" /\ rowDate.n < cutoffString.n

\* the row numbers collected from the first data row down
RECURSIVE RowsToDelete_topDown(_, _, _, _)
RowsToDelete_topDown(grid, dateCol, cutoffString, i) ==
    IF i < 2 THEN <<>>
    ELSE LET rowDate == grid[i][dateCol]
         IN  IF Truthy(rowDate) /\ DayLess(rowDate, cutoffString)
             THEN RowsToDelete_topDown(grid, dateCol, cutoffString, i - 1) \o <<i>>
             ELSE RowsToDelete_topDown(grid, dateCol, cutoffString, i - 1)

\* sheet row numbers pushed by the loop that runs from the last data row up
RECURSIVE RowsToDelete(_, _, _, _)
RowsToDelete(grid, dateCol, cutoffString, i) ==
    IF i < 2 THEN <<>>
    ELSE LET rowDate == grid[i][dateCol]
         IN  IF Truthy(rowDate) /\ DayLess(rowDate, cutoffString)
             THEN <<i>> \o RowsToDelete(grid, dateCol, cutoffString, i - 1)
             ELSE RowsToDelete(grid, dateCol, cutoffString, i - 1)

\* a deletion that leaves the row in place with its first cell cleared
DeleteRow_clearingFirstCell(grid, rowIndex) ==
    [grid EXCEPT ![rowIndex] =
        [c \in 1..Len(grid[rowIndex]) |-> IF c = 1 THEN Blank ELSE grid[rowIndex][c]]]

\* sheet.deleteRow(rowIndex): the rows below move up
DeleteRow(grid, rowIndex) ==
    [i \in 1..(Len(grid) - 1) |-> IF i < rowIndex THEN grid[i] ELSE grid[i + 1]]

RECURSIVE DeleteEach(_, _, _)
DeleteEach(grid, rowsToDelete, k) ==
    IF k > Len(rowsToDelete) THEN grid
    ELSE DeleteEach(DeleteRow(grid, rowsToDelete[k]), rowsToDelete, k + 1)

\* cleanOldArchiveData(): [err, archive]; fault "delete" fails the second
\* deleteRow call, after one row is gone
cleanOldArchiveData(ar, day, fault) ==
    IF fault = "open" THEN [err |-> ArchiveFault, archive |-> ar]
    ELSE IF ~ar.exists \/ DateColumn(ar.grid) = 0 THEN [err |-> "none", archive |-> ar]
    ELSE LET cutoffString == DayStr(day - RetentionDays)
             rowsToDelete == RowsToDelete(ar.grid, DateColumn(ar.grid), cutoffString,
                                          Len(ar.grid))
         IN  IF fault = "delete" /\ Len(rowsToDelete) > 1
             THEN [err |-> ArchiveFault,
                   archive |-> [ar EXCEPT !.grid = DeleteRow(ar.grid, rowsToDelete[1])]]
             ELSE [err |-> "none",
                   archive |-> [ar EXCEPT !.grid = DeleteEach(ar.grid, rowsToDelete, 1)]]

----------------------------------------------------------------------------
(* Error ledger sheet: [exists, grid] *)

LedgerHeader == <<Txt("Timestamp"), Txt("Error"), Txt("Details")>>

LedgerFault == "Exception: error sheet call failed"

\* logSyncError(error): [err, ledger]; no call in it is guarded, so a failing
\* Spreadsheet call leaves through the function
logSyncError(led, error, day, fault) ==
    IF fault = "open" THEN [err |-> LedgerFault, ledger |-> led]
    ELSE LET sheet == IF led.exists THEN led
                      ELSE [exists |-> TRUE, grid |-> <<LedgerHeader>>]
             errorMessage == IF error # "" THEN error ELSE "Unknown error"
             errorDetails == "Error: " \o error
         IN  IF fault = "append" THEN [err |-> LedgerFault, ledger |-> sheet]
             ELSE [err |-> "none",
                   ledger |-> [sheet EXCEPT !.grid =
                       Append(sheet.grid,
                              <<DateObj(day), Txt(errorMessage), Txt(errorDetails)>>)]]

----------------------------------------------------------------------------
(* Read endpoint.  A doGet result is [kind, body, mime, headers, jsonData]: *)
(* kind "returned" or "raised", the object handed to JSON.stringify, the    *)
(* MIME type, the response headers set, and the local jsonData as far as    *)
(* it was built.                                                            *)

\* the methods of the TextOutput object that createTextOutput returns
TextOutputMethods ==
    {"append", "clear", "downloadAsFile", "getContent", "getFileName", "getMimeType",
     "setContent", "setMimeType"}

\* JSON.stringify of a cell value: a Date becomes its ISO string
ToJson(v) == IF v.t = "date" THEN [t |-> "iso", n |-> v.n, s |-> ""] ELSE v

\* getDataRange().getValues(): an empty sheet gives one row of one blank cell
GetValues(grid) == IF Len(grid) = 0 THEN <<(<<Blank>>)>> ELSE grid

\* the object built by headers.forEach: obj[header] = row[index]; a header
\* text that occurs twice keeps the value of its last column
RowObject(headers, row) ==
    [name \in {headers[c].s : c \in 1..Len(headers)} |->
        row[CHOOSE c \in 1..Len(headers) :
                /\ headers[c].s = name
                /\ \A d \in 1..Len(headers) : headers[d].s = name => d <= c]]

JsonData(grid) ==
    LET data    == GetValues(grid)
        headers == data[1]
        rows    == Tail(data)
    IN  [i \in 1..Len(rows) |-> RowObject(headers, rows[i])]

\* the catch block of doGet
FetchFailed(message, jsonData) ==
    [kind |-> "returned",
     body |-> [error |-> "Failed to fetch data", details |-> message],
     mime |-> "JSON", headers |-> {}, jsonData |-> jsonData]

\* doGet with no catch block
doGet_uncaught(ar, day, fault) ==
    IF fault = "open" \/ (ar.exists /\ fault = "read")
    THEN [kind |-> "raised", body |-> [error |-> ArchiveFault], mime |-> "none",
          headers |-> {}, jsonData |-> <<>>]
    ELSE IF ~ar.exists
    THEN [kind |-> "returned", body |-> [error |-> "Archive data not found"],
          mime |-> "JSON", headers |-> {}, jsonData |-> <<>>]
    ELSE [kind |-> "raised",
          body |-> [error |-> "TypeError: response.setHeader is not a function"],
          mime |-> "none", headers |-> {}, jsonData |-> JsonData(ar.grid)]

\* doGet answering a missing archive with an empty data set
doGet_missingAsEmpty(ar, day, fault) ==
    IF ~ar.exists /\ fault # "open"
    THEN [kind |-> "returned",
          body |-> [success |-> TRUE, data |-> <<>>, lastUpdated |-> ToJson(DateObj(day))],
          mime |-> "JSON", headers |-> {}, jsonData |-> <<>>]
    ELSE doGet_uncaught(ar, day, fault)

\* doGet(e): fault names the Spreadsheet call that throws, if any
doGet(ar, day, fault) ==
    IF fault = "open" THEN FetchFailed(ArchiveFault, <<>>)
    ELSE IF ~ar.exists
    THEN [kind |-> "returned", body |-> [error |-> "Archive data not found"],
          mime |-> "JSON", headers |-> {}, jsonData |-> <<>>]
    ELSE IF fault = "read" THEN FetchFailed(ArchiveFault, <<>>)
    ELSE LET jsonData == JsonData(ar.grid)
         IN  IF "setHeader" \in TextOutputMethods
             THEN [kind |-> "returned",
                   body |-> [success |-> TRUE,
                             data |-> [i \in 1..Len(jsonData) |->
                                         [name \in DOMAIN jsonData[i] |->
                                             ToJson(jsonData[i][name])]],
                             lastUpdated |-> ToJson(DateObj(day))],
                   mime |-> "JSON",
                   headers |-> {<<"Access-Control-Allow-Origin", "*">>,
                                <<"Access-Control-Allow-Methods", "GET">>,
                                <<"Access-Control-Allow-Headers", "Content-Type">>},
                   jsonData |-> jsonData]
             ELSE FetchFailed("response.setHeader is not a function", jsonData)

----------------------------------------------------------------------------
(* The pipeline.  A stage result is [err, trace, archive, enriched,         *)
(* validated, preSweep]: the error thrown ("none" if the try block ran to   *)
(* its end), the stages entered in order, the archive sheet as the stages   *)
(* left it, the merge output, the filter output, and the archive sheet as   *)
(* saveToArchive left it.                                                   *)

SourceFault == "Exception: source spreadsheet call failed"

Stopped(err, trace, ar, enriched) ==
    [err |-> err, trace |-> trace, archive |-> ar, enriched |-> enriched,
     validated |-> <<>>, preSweep |-> ar]

\* the five reader calls in order; the first one that throws ends the reading
ReadSources(src, fault) ==
    IF fault = "open" THEN Throw(SourceFault)
    ELSE LET finalSignals    == getFinalSignals(src)
             technicalData   == getTechnicalData(src)
             fundamentals    == getFundamentals(src)
             marketSentiment == getMarketSentiment(src)
             companyNames    == getCompanyNameMap(src)
         IN  IF finalSignals.err # "none" THEN Throw(finalSignals.err)
             ELSE IF technicalData.err # "none" THEN Throw(technicalData.err)
             ELSE IF fundamentals.err # "none" THEN Throw(fundamentals.err)
             ELSE IF marketSentiment.err # "none" THEN Throw(marketSentiment.err)
             ELSE IF companyNames.err # "none" THEN Throw(companyNames.err)
             ELSE Ok([finalSignals |-> finalSignals.val,
                      technicalData |-> technicalData.val,
                      fundamentals |-> fundamentals.val,
                      marketSentiment |-> marketSentiment.val,
                      companyNames |-> companyNames.val])

\* the calls of the try block that precede the per-row filter, in order
StagesBeforeFilter == <<"read", "validateData", "mergeSignalData", "validateEnrichedData">>

\* the stages with the retention sweep called before the archive append
ArchiveStages_sweepFirst(enrichedData, ar, day, f, trace) ==
    LET validatedData == SelectSeq(enrichedData, RowPasses)
        base == [Stopped("none", trace \o <<"filter">>, ar, enrichedData)
                    EXCEPT !.validated = validatedData]
    IN  IF Len(validatedData) = 0
        THEN [base EXCEPT !.err = "No valid signals after validation"]
        ELSE LET swept == cleanOldArchiveData(ar, day, f.sweep)
             IN  IF swept.err # "none"
                 THEN [base EXCEPT !.err = swept.err,
                                   !.trace = @ \o <<"cleanOldArchiveData">>,
                                   !.archive = swept.archive,
                                   !.preSweep = swept.archive]
                 ELSE LET saved == saveToArchive(swept.archive, validatedData, f.save)
                      IN  [base EXCEPT !.err = saved.err,
                                       !.trace = @ \o <<"cleanOldArchiveData", "saveToArchive">>,
                                       !.archive = saved.archive,
                                       !.preSweep = saved.archive]

\* the try block from the per-row filter to its end
ArchiveStages(enrichedData, ar, day, f, trace) ==
    LET validatedData == SelectSeq(enrichedData, RowPasses)
        base == [Stopped("none", trace \o <<"filter">>, ar, enrichedData)
                    EXCEPT !.validated = validatedData]
    IN  IF Len(validatedData) = 0
        THEN [base EXCEPT !.err = "No valid signals after validation"]
        ELSE LET saved == saveToArchive(ar, validatedData, f.save)
             IN  IF saved.err # "none"
                 THEN [base EXCEPT !.err = saved.err,
                                   !.trace = @ \o <<"saveToArchive">>,
                                   !.archive = saved.archive,
                                   !.preSweep = saved.archive]
                 ELSE LET swept == cleanOldArchiveData(saved.archive, day, f.sweep)
                      IN  [base EXCEPT !.err = swept.err,
                                       !.trace = @ \o <<"saveToArchive", "cleanOldArchiveData">>,
                                       !.archive = swept.archive,
                                       !.preSweep = saved.archive]

\* the try block of syncData_web
TryBlock(src, ar, day, f) ==
    LET read == ReadSources(src, f.read)
    IN  IF read.err # "none" THEN Stopped(read.err, SubSeq(StagesBeforeFilter, 1, 1), ar, <<>>)
        ELSE IF ~validateData(read.val.finalSignals, read.val.technicalData,
                              read.val.fundamentals, read.val.marketSentiment)
        THEN Stopped("Data validation failed - missing required fields or invalid data",
                     SubSeq(StagesBeforeFilter, 1, 2), ar, <<>>)
        ELSE LET merged == mergeSignalData(read.val.finalSignals, read.val.technicalData,
                                           read.val.fundamentals, read.val.marketSentiment,
                                           read.val.companyNames)
             IN  IF merged.err # "none"
                 THEN Stopped(merged.err, SubSeq(StagesBeforeFilter, 1, 3), ar, <<>>)
                 ELSE IF ~validateEnrichedData(merged.val)
                 THEN Stopped("Enriched data validation failed",
                              StagesBeforeFilter, ar, merged.val)
                 ELSE ArchiveStages(merged.val, ar, day, f, StagesBeforeFilter)

\* the catch block: logSyncError(error); throw error.  [raised, ledger]
CatchBlock(error, led, day, fault) ==
    LET logged == logSyncError(led, error, day, fault)
    IN  [raised |-> IF logged.err # "none" THEN logged.err ELSE error,
         ledger |-> logged.ledger]

\* what one execution leaves behind, given the result of its try block
Outcome(body, ar, led, day, f) ==
    LET caught == IF body.err = "none" THEN [raised |-> "none", ledger |-> led]
                  ELSE CatchBlock(body.err, led, day, f.log)
    IN  [outcome |-> IF body.err = "none" THEN "Done" ELSE "Failed",
         stageError |-> body.err,
         raised |-> caught.raised,
         trace |-> body.trace,
         enriched |-> body.enriched,
         validated |-> body.validated,
         preSweep |-> body.preSweep,
         before |-> ar,
         ledgerBefore |-> led,
         archive |-> body.archive,
         ledger |-> caught.ledger]

\* syncData_web()
syncData_web(src, ar, led, day, f) == Outcome(TryBlock(src, ar, day, f), ar, led, day, f)

\* the statements of syncData_web that follow the post-merge gate, with its
\* catch block, entered with merge output enrichedData
syncData_web_fromFilter(enrichedData, ar, led, day, f) ==
    Outcome(ArchiveStages(enrichedData, ar, day, f, StagesBeforeFilter), ar, led, day, f)

-----------------------------------------------------------------------------
(* The dashboard page: MarketSignalApp (app.js), its DataHandler and the     *)
(* two UIComponents surfaces the data handlers of the app drive              *)

maxRetries == 3
retryDelay == 2000

\* no page is open
NoApp == [pc |-> "absent"]

\* the ways a call of fetchData fails: fetch rejects, the response is not
\* OK, the body is not a valid API response, or a statement that follows the
\* assignment of this.data throws
FetchFailures == {"network", "status", "invalid", "processing"}

\* nothing has settled yet
NothingSettled == [by |-> "none"]

\* the page after its scripts ran: window.app = new MarketSignalApp(), the
\* DataHandler as constructed. The environment of the page is part of the
\* record, as env: the first `plan` calls of fetchData fail in the way
\* `failure`, the next one succeeds with `served` valid signals of which
\* `shown` pass the date and the filters, and the calls after that fail
\* again when `relapse`; `cached` is the number of signals held under
\* 'cached-signal-data' (younger than 24 h), `loaded` says whether the
\* uiComponents and dataHandler globals are defined
NewApp(env) ==
    [pc |-> "constructed", isInitialized |-> FALSE, isLoading |-> FALSE,
     retryCount |-> 0, timers |-> <<>>, scheduled |-> 0, listening |-> FALSE,
     initErrorShown |-> FALSE,
     data |-> 0, filteredData |-> 0, isDataFromCache |-> FALSE, lastUpdated |-> FALSE,
     handlerLoading |-> FALSE,
     loadingShown |-> TRUE, errorShown |-> FALSE, errorCalls |-> 0,
     fetches |-> {}, fetchCalls |-> 0, refreshes |-> 0,
     error |-> "none", settled |-> NothingSettled,
     plan |-> env.plan, failure |-> env.failure, relapse |-> env.relapse,
     cached |-> env.cached, loaded |-> env.loaded, served |-> env.served,
     shown |-> env.shown]

\* what the next call of fetchData will settle with
FetchOutcome(a) ==
    IF a.fetchCalls < a.plan \/ (a.relapse /\ a.fetchCalls > a.plan)
    THEN a.failure ELSE "resolves"

\* DataHandler.fetchData up to its await of fetch, called on behalf of `by`
fetchData_call(a, by) ==
    [a EXCEPT !.handlerLoading = TRUE,
              !.isDataFromCache = FALSE,
              !.fetchCalls = @ + 1,
              !.fetches = @ \cup {[by |-> by, call |-> a.fetchCalls + 1,
                                   outcome |-> FetchOutcome(a)]}]

\* the try block of fetchData from the moment fetch settles, as far as it
\* gets: the checks of the response, then data, lastUpdated and, last, the
\* filtered data
fetchData_try(a, outcome) ==
    IF outcome \in {"network", "status", "invalid"} THEN [a EXCEPT !.error = outcome]
    ELSE IF outcome = "processing"
         THEN [a EXCEPT !.data = a.served, !.lastUpdated = TRUE, !.error = outcome]
         ELSE [a EXCEPT !.data = a.served, !.lastUpdated = TRUE,
                        !.filteredData = a.shown, !.error = "none"]

\* a catch block that rethrows and clears nothing
fetchData_catch_keeping(a) == a

\* the catch block of fetchData: the data is cleared and the error, left in
\* place here, is thrown again
fetchData_catch(a) ==
    [a EXCEPT !.data = 0, !.filteredData = 0, !.lastUpdated = FALSE]

\* DataHandler.fetchData from the moment fetch f settles to its end; settled
\* is what its caller finds when the promise settles
fetchData_settle(a, f) ==
    LET b == fetchData_try([a EXCEPT !.fetches = @ \ {f}], f.outcome)
        c == IF b.error = "none" THEN b ELSE fetchData_catch(b)
        d == [c EXCEPT !.handlerLoading = FALSE]
    IN  [d EXCEPT !.error = "none",
                  !.settled = [by |-> f.by, outcome |-> f.outcome,
                               threw |-> c.error # "none",
                               had |-> a.data,
                               data |-> d.data, filteredData |-> d.filteredData,
                               lastUpdated |-> d.lastUpdated,
                               isLoading |-> d.handlerLoading,
                               returned |-> "pending"]]

\* MarketSignalApp.handleDataLoaded, with UIComponents.handleDataLoaded
handleDataLoaded(a) ==
    [a EXCEPT !.loadingShown = IF a.loaded THEN FALSE ELSE @,
              !.retryCount = 0]

\* a handler that puts a retry on a timer whatever retryCount is
handleDataError_unbounded(a) ==
    [a EXCEPT !.retryCount = @ + 1,
              !.scheduled = @ + 1,
              !.timers = Append(@, retryDelay * (a.retryCount + 1))]

\* MarketSignalApp.handleDataError: another retry is put on a timer while
\* retryCount < maxRetries, else UIComponents.handleDataError shows the error
handleDataError(a) ==
    IF a.retryCount < maxRetries
    THEN [a EXCEPT !.retryCount = @ + 1,
                   !.scheduled = @ + 1,
                   !.timers = Append(@, retryDelay * (a.retryCount + 1))]
    ELSE IF a.loaded
         THEN [a EXCEPT !.loadingShown = FALSE, !.errorShown = TRUE,
                        !.errorCalls = @ + 1]
         ELSE a

\* MarketSignalApp.init up to its first await that depends on the network:
\* initUI or initDataHandler throws when the globals are missing and the
\* catch block shows the overlay; else loadInitialData starts the fetch
init_call(a) ==
    IF ~a.loaded
    THEN [a EXCEPT !.pc = "resolved", !.initErrorShown = TRUE]
    ELSE IF a.isLoading
         THEN [a EXCEPT !.pc = "resolved", !.listening = TRUE, !.isInitialized = TRUE]
         ELSE fetchData_call([a EXCEPT !.pc = "loading", !.isLoading = TRUE,
                                       !.loadingShown = TRUE], "init")

\* the catch block of loadInitialData: cached signals, if any, stand in for
\* the response; else handleDataError
loadInitialData_catch(a) ==
    IF a.cached > 0
    THEN handleDataLoaded([a EXCEPT !.data = a.cached, !.isDataFromCache = TRUE,
                                    !.filteredData = a.cached])
    ELSE handleDataError(a)

\* MarketSignalApp.init from the moment the fetch f of loadInitialData
\* settles to its end: the rest of loadInitialData, then the listeners, the
\* auto-refresh timer and isInitialized
init_settle(a, f) ==
    LET b == fetchData_settle(a, f)
        c == IF ~b.settled.threw THEN handleDataLoaded(b)
             ELSE loadInitialData_catch(b)
    IN  [c EXCEPT !.isLoading = FALSE, !.listening = TRUE,
                  !.isInitialized = TRUE, !.pc = "resolved"]

\* a retry timer fires: MarketSignalApp.handleRetry up to its await
handleRetry_call(a, i) ==
    fetchData_call([a EXCEPT !.timers = SubSeq(@, 1, i - 1) \o
                                        SubSeq(@, i + 1, Len(@))], "retry")

\* MarketSignalApp.handleRetry from the moment its fetch settles
handleRetry_settle(a, f) ==
    LET b == fetchData_settle(a, f)
    IN  IF ~b.settled.threw THEN handleDataLoaded(b) ELSE handleDataError(b)

\* MarketSignalApp.refreshData up to the await inside DataHandler.refreshData,
\* which first saves fresh signals to the cache
refreshData_call(a) ==
    IF a.isLoading THEN a
    ELSE fetchData_call([a EXCEPT !.isLoading = TRUE,
                                  !.refreshes = @ + 1,
                                  !.cached = IF a.data > 0 /\ ~a.isDataFromCache
                                             THEN a.data ELSE @], "refresh")

\* MarketSignalApp.refreshData from the moment its fetch settles:
\* DataHandler.refreshData returns true or false, then the finally block
refreshData_settle(a, f) ==
    LET b == fetchData_settle(a, f)
    IN  [b EXCEPT !.isLoading = FALSE, !.settled.returned = ~b.settled.threw]

-----------------------------------------------------------------------------
(* DataHandler.getSignalsForDate *)

\* values of the loaded JSON. A string is held as its pieces between the
\* letters 'T', so "2024-01-01T00:00" is <<"2024-01-01", "00:00">> and the
\* empty string is <<"">>
JsString(pieces) == [t |-> "string", pieces |-> pieces]
JsNumber(n) == [t |-> "number", n |-> n]
JsNull == [t |-> "null"]
JsUndefined == [t |-> "undefined"]

\* !v
Falsy(v) ==
    \/ v.t \in {"undefined", "null"}
    \/ v.t = "string" /\ v.pieces = <<"">>
    \/ v.t = "number" /\ v.n = 0

\* signal[name]
Field(signal, name) == IF name \in DOMAIN signal THEN signal[name] ELSE JsUndefined

\* v.split('T')[0]
BeforeT(v) == JsString(<<Head(v.pieces)>>)

\* a filter callback that compares the stored string as it is
DateFilter_wholeString(signal, date) ==
    [keep |-> ~Falsy(Field(signal, "Date")) /\ Field(signal, "Date") = date,
     signal |-> signal]

\* the callback of this.data.filter in getSignalsForDate: whether the signal
\* is kept, and the signal object as the callback leaves it
DateFilter(signal, date) ==
    IF Falsy(Field(signal, "Date")) THEN [keep |-> FALSE, signal |-> signal]
    ELSE LET signalDate == IF signal.Date.t = "string" THEN BeforeT(signal.Date)
                           ELSE signal.Date
         IN  [keep |-> signalDate = date, signal |-> signal]

\* DataHandler.getSignalsForDate(date) on this.data = data, utils.getTodayDate()
\* giving todayDate: the array returned and this.data afterwards
getSignalsForDate(data, date, todayDate) ==
    LET wanted == IF Falsy(date) \/ date = JsString(<<"today">>) THEN todayDate ELSE date
        after == [i \in 1..Len(data) |-> DateFilter(data[i], wanted).signal]
    IN  IF Len(data) = 0 THEN [returned |-> <<>>, data |-> data]
        ELSE [returned |-> SelectSeq(data, LAMBDA s : DateFilter(s, wanted).keep),
              data |-> after]

-----------------------------------------------------------------------------
(* The service worker (sw.js): the data cache and the executions that write it *)

DATA_CACHE_LIMIT == 30

\* cache.put(request, response) on the list cache.keys() gives: an entry of
\* the same request is replaced, and the new entry is the last one listed
CachePut(keys, url) == SelectSeq(keys, LAMBDA k : k # url) \o <<url>>

\* cache.delete(request)
CacheDelete(keys, url) == SelectSeq(keys, LAMBDA k : k # url)

\* the number of deletions with one entry too few
Excess_lessOne(keys) ==
    IF Len(keys) <= DATA_CACHE_LIMIT + 1 THEN 0 ELSE Len(keys) - DATA_CACHE_LIMIT - 1

\* trimDataCache: the number of deletions it makes for the list keys
Excess(keys) ==
    IF Len(keys) <= DATA_CACHE_LIMIT THEN 0 ELSE Len(keys) - DATA_CACHE_LIMIT

\* whether response.clone() can be called once response.json() was awaited:
\* the body has been read, and clone() of a used body throws a TypeError
CloneAfterJson == FALSE

\* an execution of handleApiRequest(request) or performBackgroundSync() at
\* its first await
NewJob(id, kind, url) ==
    [id |-> id, kind |-> kind, url |-> url, pc |-> "fetch", keys |-> <<>>, i |-> 0,
     excess |-> 0]

----------------------------------------------------------------------------
(* Bounds and input sets *)

MaxSignals == 2     \* data rows of the FinalSignals table
MaxRuns    == 2     \* records the error ledger may hold
MaxTickers == 2     \* tickers a merge output draws from
MaxRows    == 2     \* rows of a merge output
MaxDedup   == 3     \* length of an argument of removeDuplicateTickers
StartDay   == 100   \* the calendar day of the modelled runs
MaxSweeps  == 2     \* consecutive executions of cleanOldArchiveData
MaxArchived == 3    \* data rows of an archive handed to cleanOldArchiveData

BoundedSeqs(S, n) == UNION {[1..k -> S] : k \in 0..n}

\* a FinalSignals row as the reader's object
SignalRow(ticker, decision, timestamp, sellTarget, confidence, summary) ==
    [timestamp |-> timestamp, ticker |-> Txt(ticker), decision |-> Txt(decision),
     sellTarget |-> sellTarget, targetHorizon |-> Txt("1M"), confidence |-> confidence,
     riskLevel |-> Txt("Low"), summary |-> Txt(summary), macroMood |-> Txt("Bullish"),
     techScore |-> Num(7)]

TechRow(ticker, currentPrice) ==
    [ticker |-> Txt(ticker), currentPrice |-> currentPrice, week52High |-> Num(20),
     week52Low |-> Num(5), rsi |-> Num(55), volumeSpike |-> Blank, macd |-> Num(1),
     gapStatus |-> Blank, ma50 |-> Num(9), ma200 |-> Num(8), atr |-> Num(2),
     technicalScore |-> Num(6), timestamp |-> DateObj(1)]

FundRow(ticker) ==
    [ticker |-> Txt(ticker), marketCap |-> Num(1000), peRatio |-> Num(25),
     revenueGrowth |-> Num(3), profitMargin |-> Num(4), roe |-> Num(5),
     epsGrowth |-> Num(6), debtToEquity |-> Num(1), peg |-> Num(2), evEbitda |-> Num(9),
     fcfShare |-> Num(3), sector |-> Txt("Technology"), industry |-> Txt("Software"),
     currentRatio |-> Num(2)]

SentimentRow ==
    [marketMood |-> Txt("Risk-On"), macroStrength |-> Txt("Strong"),
     volatilityLevel |-> Txt("Low"), summary |-> Txt("calm"), date |-> DayStr(StartDay)]

NameRows == <<[ticker |-> Txt("AAPL"), name |-> Txt("Apple Inc.")]>>

NoSheet == [exists |-> FALSE, grid |-> <<>>]

Table(rows) == [exists |-> TRUE, rows |-> rows]

AllTickers == <<"AAPL", "MSFT", "GOOGL", "TSLA">>

\* FinalSignals rows: BUY rows with confidence in and out of range, a BUY row
\* whose ticker has no technical record, a SELL row and a row without ticker
SpecSignalRows ==
    {SignalRow("AAPL", "BUY", DateObj(1), Num(12), Num(50), "s"),
     SignalRow("AAPL", "BUY", DateObj(1), Num(12), Num(150), "s"),
     SignalRow("GOOGL", "BUY", DateObj(1), Num(12), Num(50), "s"),
     SignalRow("AAPL", "SELL", DateObj(1), Num(12), Num(50), "s"),
     SignalRow("", "BUY", DateObj(1), Num(12), Num(50), "s")}

TabNames == {"signals", "technical", "fundamentals", "sentiment", "names"}

\* source spreadsheets: any FinalSignals rows; a technical record and a name
\* for AAPL only; and either nothing unusual, or no technical rows, or no
\* sentiment rows, or one table missing
Sources ==
    {[t \in TabNames |->
        IF t = unusual THEN [exists |-> FALSE, rows |-> <<>>]
        ELSE Table(CASE t = "signals" -> signals
                     [] t = "technical" ->
                            IF unusual = "noTechnicalRows" THEN <<>>
                            ELSE <<TechRow("AAPL", Num(10))>>
                     [] t = "fundamentals" -> <<FundRow("AAPL")>>
                     [] t = "sentiment" ->
                            IF unusual = "noSentimentRows" THEN <<>>
                            ELSE <<SentimentRow>>
                     [] OTHER -> NameRows)] :
        signals \in BoundedSeqs(SpecSignalRows, MaxSignals),
        unusual \in TabNames \cup {"none", "noTechnicalRows", "noSentimentRows"}}

\* an archive row written on calendar day d
ArchivedRow(ticker, d) ==
    RowValues(EnrichedRow(SignalRow(ticker, "BUY", DateObj(1), Num(12), Num(50), "s"),
                          TechRow(ticker, Num(10)), FundRow(ticker), SentimentRow,
                          NameRows, DayStr(d)))

InitialArchives ==
    {NoSheet,
     [exists |-> TRUE, grid |-> <<HeaderRow>>],
     [exists |-> TRUE,
      grid |-> <<HeaderRow, ArchivedRow("AAPL", StartDay - 45),
                 ArchivedRow("MSFT", StartDay - 31), ArchivedRow("AAPL", StartDay - 10)>>]}

\* field values of a merge output row: a valid row and its single deviations
StageValues ==
    LET valid == [price |-> Num(10), sell |-> Num(12), conf |-> Num(50), ts |-> DateObj(1)]
    IN  {valid}
        \cup {[valid EXCEPT !.price = p] : p \in {Undef, Num(0), Num(-5)}}
        \cup {[valid EXCEPT !.sell = x] : x \in {Num(0), Num(-5)}}
        \cup {[valid EXCEPT !.conf = c] : c \in {Num(150), Num(-1)}}
        \cup {[valid EXCEPT !.ts = Txt("n/a")]}

\* merge outputs: one enriched row per ticker, built as the merge builds it
\* (price undefined: the ticker has no technical record)
StageRows(tk) ==
    {EnrichedRow(SignalRow(tk, "BUY", v.ts, v.sell, v.conf, "s"),
                 IF v.price = Undef THEN <<>> ELSE TechRow(tk, v.price),
                 FundRow(tk), SentimentRow, NameRows, DayStr(StartDay)) :
        v \in StageValues}

StageInputs ==
    UNION {{rows \in [1..k -> UNION {StageRows(AllTickers[i]) : i \in 1..MaxTickers}] :
               \A i, j \in 1..k : rows[i].Ticker = rows[j].Ticker => i = j} :
           k \in 0..MaxRows}

DedupRecords ==
    {SignalRow(tk, "BUY", ts, Num(12), Num(50), sm) :
        tk \in {"AAPL", "MSFT"}, ts \in {DateObj(1), DateObj(2), Txt("n/a"), Blank},
        sm \in {"a", "b"}}

\* the Spreadsheet call that throws in each part of a run, if any; the
\* try block ends at its first throwing call, so one fault there suffices
Faults ==
    {f \in [read : {"none", "open"}, save : {"none", "open", "write"},
            sweep : {"none", "open", "delete"}, log : {"none", "open", "append"}] :
        Cardinality({k \in {"read", "save", "sweep"} : f[k] # "none"}) <= 1}

NoRun ==
    [outcome |-> "none", stageError |-> "none", raised |-> "none", trace |-> <<>>,
     enriched |-> <<>>, validated |-> <<>>, preSweep |-> NoSheet, before |-> NoSheet,
     ledgerBefore |-> NoSheet]

NotDeduped == [done |-> FALSE, out |-> <<>>]

NoResponse == [kind |-> "none"]

LedgerRecords(led) == IF led.exists THEN Len(led.grid) - 1 ELSE 0

----------------------------------------------------------------------------
(* The scheduled pipeline *)

Init ==
    /\ source \in Sources
    /\ archive \in InitialArchives
    /\ ledger = NoSheet
    /\ today = StartDay
    /\ run = NoRun
    /\ stageIn = <<>>
    /\ dedupIn = <<>>
    /\ dedupOut = NotDeduped
    /\ history = <<>>
    /\ response = NoResponse
    /\ pending = <<>>
    /\ app = NoApp

Record(r) ==
    [outcome |-> r.outcome, stageError |-> r.stageError, raised |-> r.raised,
     trace |-> r.trace, enriched |-> r.enriched, validated |-> r.validated,
     preSweep |-> r.preSweep, before |-> r.before, ledgerBefore |-> r.ledgerBefore]

\* the trigger fires: one execution of syncData_web
SyncRun ==
    /\ LedgerRecords(ledger) < MaxRuns
    /\ \E f \in Faults :
        LET r == syncData_web(source, archive, ledger, today, f)
        IN  /\ archive' = r.archive
            /\ ledger' = r.ledger
            /\ run' = Record(r)
    /\ UNCHANGED <<source, today, stageIn, dedupIn, dedupOut, history, response, pending, app>>

Next == SyncRun

Spec == Init /\ [][Next]_vars

----------------------------------------------------------------------------
(* The stages after the post-merge gate, on every bounded merge output *)

StageInit ==
    /\ source = [t \in TabNames |-> Table(<<>>)]
    /\ archive \in InitialArchives
    /\ ledger = NoSheet
    /\ today = StartDay
    /\ run = NoRun
    /\ stageIn \in StageInputs
    /\ dedupIn = <<>>
    /\ dedupOut = NotDeduped
    /\ history = <<>>
    /\ response = NoResponse
    /\ pending = <<>>
    /\ app = NoApp

StageRun ==
    /\ run.outcome = "none"
    /\ \E f \in Faults :
        LET r == syncData_web_fromFilter(stageIn, archive, ledger, today, f)
        IN  /\ archive' = r.archive
            /\ ledger' = r.ledger
            /\ run' = Record(r)
    /\ UNCHANGED <<source, today, stageIn, dedupIn, dedupOut, history, response, pending, app>>

StageNext == StageRun

StageSpec == StageInit /\ [][StageNext]_vars

----------------------------------------------------------------------------
(* removeDuplicateTickers on every bounded argument *)

DedupInit ==
    /\ source = [t \in TabNames |-> Table(<<>>)]
    /\ archive = NoSheet
    /\ ledger = NoSheet
    /\ today = StartDay
    /\ run = NoRun
    /\ stageIn = <<>>
    /\ dedupIn \in BoundedSeqs(DedupRecords, MaxDedup)
    /\ dedupOut = NotDeduped
    /\ history = <<>>
    /\ response = NoResponse
    /\ pending = <<>>
    /\ app = NoApp

ApplyDedup ==
    /\ ~dedupOut.done
    /\ dedupOut' = [done |-> TRUE, out |-> removeDuplicateTickers(dedupIn)]
    /\ UNCHANGED <<source, archive, ledger, today, run, stageIn, dedupIn, history, response, pending, app>>

DedupNext == ApplyDedup

DedupSpec == DedupInit /\ [][DedupNext]_vars

----------------------------------------------------------------------------
(* The merge loop followed by the stages after the post-merge gate.  The    *)
(* rows are those the forEach of mergeSignalData builds when the identifier *)
(* dateString evaluates to the dateString of syncData_web; they are handed  *)
(* to the per-row filter as a merge output that passed the gate.            *)

\* FinalSignals records: two tickers with a technical record (AAPL priced 10,
\* MSFT priced 0) and one without; AAPL with an earlier and a later record,
\* a sell target of 0 and a confidence out of range; a SELL record and a
\* record with no ticker.  The sentiment table holds
\* two rows, the last one with the earlier date.
MergeSignals ==
    {SignalRow("AAPL", "BUY", DateObj(1), Num(12), Num(50), "a"),
     SignalRow("AAPL", "BUY", DateObj(2), Num(12), Num(50), "b"),
     SignalRow("AAPL", "BUY", DateObj(2), Num(0), Num(50), "c"),
     SignalRow("AAPL", "BUY", DateObj(1), Num(12), Num(150), "d"),
     SignalRow("MSFT", "BUY", DateObj(1), Num(12), Num(50), "a"),
     SignalRow("MSFT", "BUY", DateObj(2), Num(15), Num(50), "b"),
     SignalRow("GOOGL", "BUY", DateObj(1), Num(12), Num(50), "a"),
     SignalRow("AAPL", "SELL", DateObj(1), Num(12), Num(50), "a"),
     SignalRow("", "BUY", DateObj(1), Num(12), Num(50), "a")}

MergeSources ==
    {[t \in TabNames |->
        Table(CASE t = "signals" -> signals
                [] t = "technical" -> <<TechRow("AAPL", Num(10)), TechRow("MSFT", Num(0))>>
                [] t = "fundamentals" -> <<FundRow("AAPL")>>
                [] t = "sentiment" ->
                       <<SentimentRow,
                         [SentimentRow EXCEPT !.marketMood = Txt("Risk-Off"),
                                              !.date = DayStr(StartDay - 3)]>>
                [] OTHER -> NameRows)] :
        signals \in BoundedSeqs(MergeSignals, MaxSignals)}

\* the rows built from the tables of src when dateString evaluates to d
MergedRows(src, d) ==
    LET read == ReadSources(src, "none").val
    IN  MergeRows(removeDuplicateTickers(read.finalSignals), read.technicalData,
                  read.fundamentals, read.marketSentiment, read.companyNames, d)

MergeFaults == {f \in Faults : f.read = "none" /\ f.sweep = "none" /\ f.log = "none"
                                /\ f.save \in {"none", "write"}}

MergeInit ==
    /\ source \in MergeSources
    /\ archive \in InitialArchives
    /\ ledger = NoSheet
    /\ today = StartDay
    /\ run = NoRun
    /\ stageIn = <<>>
    /\ dedupIn = <<>>
    /\ dedupOut = NotDeduped
    /\ history = <<>>
    /\ response = NoResponse
    /\ pending = <<>>
    /\ app = NoApp

MergeRun ==
    /\ Len(history) < MaxRuns
    /\ \E f \in MergeFaults :
        LET enrichedData == MergedRows(source, DayStr(today))
            r == syncData_web_fromFilter(enrichedData, archive, ledger, today, f)
        IN  /\ stageIn' = enrichedData
            /\ archive' = r.archive
            /\ ledger' = r.ledger
            /\ run' = Record(r)
            /\ history' = Append(history, [err |-> r.stageError, before |-> archive])
    /\ UNCHANGED <<source, today, dedupIn, dedupOut, response, pending, app>>

MergeNext == MergeRun

MergeSpec == MergeInit /\ [][MergeNext]_vars

----------------------------------------------------------------------------
(* mergeSignalData called several times on the same tables while the day,   *)
(* the archive and the ledger change in between                             *)

CallInit == MergeInit

\* one call of mergeSignalData on the tables read from the source
CallMerge ==
    /\ Len(history) < MaxRuns
    /\ LET read   == ReadSources(source, "none").val
           merged == mergeSignalData(read.finalSignals, read.technicalData,
                                     read.fundamentals, read.marketSentiment,
                                     read.companyNames)
       IN  history' = Append(history, [err |-> merged.err, before |-> archive,
                                       val |-> merged.val, day |-> today])
    /\ UNCHANGED <<source, archive, ledger, today, run, stageIn, dedupIn, dedupOut,
                   response, pending, app>>

\* a day passes; the archive sheet is removed or created and the ledger
\* gains a record
AmbientChange ==
    /\ today = StartDay
    /\ today' = today + 1
    /\ archive' = IF archive.exists THEN NoSheet ELSE [exists |-> TRUE, grid |-> <<HeaderRow>>]
    /\ ledger' = logSyncError(ledger, "manual entry", today, "none").ledger
    /\ UNCHANGED <<source, run, stageIn, dedupIn, dedupOut, history, response, pending, app>>

CallNext == CallMerge \/ AmbientChange

CallSpec == CallInit /\ [][CallNext]_vars

----------------------------------------------------------------------------
(* cleanOldArchiveData on every bounded archive, several times in a row *)

\* archive rows dated before, at and after the cutoff, and one with no date
SweepRows ==
    {ArchivedRow("AAPL", StartDay - 45), ArchivedRow("MSFT", StartDay - 31),
     ArchivedRow("GOOGL", StartDay - 30), ArchivedRow("AAPL", StartDay - 10),
     RowValues(EnrichedRow(SignalRow("TSLA", "BUY", DateObj(1), Num(12), Num(50), "s"),
                           <<>>, <<>>, SentimentRow, NameRows, Undef))}

SweepArchives ==
    {NoSheet} \cup {[exists |-> TRUE, grid |-> <<HeaderRow>> \o rows] :
                        rows \in BoundedSeqs(SweepRows, MaxArchived)}

SweepInit ==
    /\ source = [t \in TabNames |-> Table(<<>>)]
    /\ archive \in SweepArchives
    /\ ledger = NoSheet
    /\ today = StartDay
    /\ run = NoRun
    /\ stageIn = <<>>
    /\ dedupIn = <<>>
    /\ dedupOut = NotDeduped
    /\ history = <<>>
    /\ response = NoResponse
    /\ pending = <<>>
    /\ app = NoApp

ApplySweep ==
    /\ Len(history) < MaxSweeps
    /\ \E fault \in {"none", "open", "delete"} :
        LET swept == cleanOldArchiveData(archive, today, fault)
        IN  /\ archive' = swept.archive
            /\ run' = [NoRun EXCEPT !.outcome = IF swept.err = "none" THEN "Done" ELSE "Failed",
                                    !.stageError = swept.err,
                                    !.raised = swept.err,
                                    !.trace = <<"cleanOldArchiveData">>,
                                    !.preSweep = archive,
                                    !.before = archive]
            /\ history' = Append(history, [err |-> swept.err, before |-> archive])
    /\ UNCHANGED <<source, ledger, today, stageIn, dedupIn, dedupOut, response, pending, app>>

SweepNext == ApplySweep

SweepSpec == SweepInit /\ [][SweepNext]_vars

----------------------------------------------------------------------------
(* doGet calls interleaved with a run.  The run is taken from its per-row   *)
(* filter on, one Spreadsheet call per step: insertSheet, setValues of the  *)
(* header, setValues of the rows, getValues of the sweep, each deleteRow.   *)
(* Each call is atomic as seen by another execution.                        *)

\* merge outputs of one and of two rows that pass the filter
ReadInputs ==
    LET row(tk) == EnrichedRow(SignalRow(tk, "BUY", DateObj(1), Num(12), Num(50), "s"),
                               TechRow(tk, Num(10)), FundRow(tk), SentimentRow, NameRows,
                               DayStr(StartDay))
    IN  {<<row("AAPL")>>, <<row("AAPL"), row("MSFT")>>}

ReadFaults == {"none", "open", "read"}

ReadInit ==
    /\ source = [t \in TabNames |-> Table(<<>>)]
    /\ archive \in InitialArchives
    /\ ledger = NoSheet
    /\ today = StartDay
    /\ run = [NoRun EXCEPT !.before = archive]
    /\ stageIn \in ReadInputs
    /\ dedupIn = <<>>
    /\ dedupOut = NotDeduped
    /\ history = <<>>
    /\ response = NoResponse
    /\ pending = <<>>
    /\ app = NoApp

\* saveToArchive: ss.insertSheet(DESTINATION_TABS.ARCHIVE)
InsertSheet ==
    /\ run.outcome = "none"
    /\ ~archive.exists
    /\ archive' = [exists |-> TRUE, grid |-> <<>>]
    /\ run' = [run EXCEPT !.outcome = "Creating", !.validated = SelectSeq(stageIn, RowPasses)]
    /\ UNCHANGED <<source, ledger, today, stageIn, dedupIn, dedupOut, history, response,
                   pending, app>>

\* saveToArchive: setValues([headers])
WriteHeader ==
    /\ run.outcome = "Creating"
    /\ archive' = [archive EXCEPT !.grid = SetValues(archive.grid, 1, <<HeaderRow>>)]
    /\ run' = [run EXCEPT !.outcome = "Archiving"]
    /\ UNCHANGED <<source, ledger, today, stageIn, dedupIn, dedupOut, history, response,
                   pending, app>>

\* saveToArchive: setValues(rowsToAdd) below the last row
AppendRows ==
    /\ \/ run.outcome = "Archiving"
       \/ run.outcome = "none" /\ archive.exists
    /\ LET validatedData == SelectSeq(stageIn, RowPasses)
       IN  /\ archive' = [archive EXCEPT
                             !.grid = SetValues(archive.grid, Len(archive.grid) + 1,
                                                RowsToAdd(validatedData))]
           /\ run' = [run EXCEPT !.outcome = "Sweeping", !.validated = validatedData,
                                 !.preSweep = archive']
    /\ UNCHANGED <<source, ledger, today, stageIn, dedupIn, dedupOut, history, response,
                   pending, app>>

\* cleanOldArchiveData: getValues and the loop that fills rowsToDelete
CollectOldRows ==
    /\ run.outcome = "Sweeping"
    /\ pending' = RowsToDelete(archive.grid, DateColumn(archive.grid),
                               DayStr(today - RetentionDays), Len(archive.grid))
    /\ run' = [run EXCEPT !.outcome = "Deleting"]
    /\ UNCHANGED <<source, archive, ledger, today, stageIn, dedupIn, dedupOut, history,
                   response, app>>

\* cleanOldArchiveData: one archiveSheet.deleteRow(rowIndex)
DeleteNextRow ==
    /\ run.outcome = "Deleting"
    /\ pending # <<>>
    /\ archive' = [archive EXCEPT !.grid = DeleteRow(archive.grid, Head(pending))]
    /\ pending' = Tail(pending)
    /\ UNCHANGED <<source, ledger, today, run, stageIn, dedupIn, dedupOut, history,
                   response, app>>

\* the try block of syncData_web reaches its end
FinishRun ==
    /\ run.outcome = "Deleting"
    /\ pending = <<>>
    /\ run' = [run EXCEPT !.outcome = "Done"]
    /\ UNCHANGED <<source, archive, ledger, today, stageIn, dedupIn, dedupOut, history,
                   response, pending, app>>

\* a web request arrives: one execution of doGet, wherever the run stands
DoGet ==
    /\ response.kind = "none"
    /\ \E fault \in ReadFaults :
          response' = doGet(archive, today, fault)
                          @@ [during |-> run.outcome, read |-> archive, fault |-> fault]
    /\ UNCHANGED <<source, archive, ledger, today, run, stageIn, dedupIn, dedupOut,
                   history, pending, app>>

ReadNext ==
    \/ InsertSheet
    \/ WriteHeader
    \/ AppendRows
    \/ CollectOldRows
    \/ DeleteNextRow
    \/ FinishRun
    \/ DoGet

ReadSpec == ReadInit /\ [][ReadNext]_vars

-----------------------------------------------------------------------------
(* The dashboard page: its handlers as the browser's event loop runs them *)

MaxFailures  == 4   \* fetch calls the network may reject before it answers
MaxRefreshes == 2   \* refreshes asked for while the page is open

\* the pages; the way of failing is fixed where no call fails
Pages ==
    {env \in [plan : 0..MaxFailures, failure : FetchFailures, relapse : BOOLEAN,
              cached : 0..1, loaded : BOOLEAN, served : 0..1, shown : 0..1] :
        /\ env.shown <= env.served
        /\ (env.plan = 0 /\ ~env.relapse) => env.failure = "network"}

AppInit ==
    /\ source = [t \in TabNames |-> Table(<<>>)]
    /\ archive = NoSheet
    /\ ledger = NoSheet
    /\ today = StartDay
    /\ run = NoRun
    /\ stageIn = <<>>
    /\ dedupIn = <<>>
    /\ dedupOut = NotDeduped
    /\ history = <<>>
    /\ response = NoResponse
    /\ pending = <<>>
    /\ \E env \in Pages : app = NewApp(env)

\* what the caller of app.init() finds when its promise resolves
Resolved(a) ==
    [op |-> "init", fetchCalls |-> a.fetchCalls, isInitialized |-> a.isInitialized,
     loadingShown |-> a.loadingShown, errorShown |-> a.errorShown,
     initErrorShown |-> a.initErrorShown]

AppUnchanged ==
    UNCHANGED <<source, archive, ledger, today, run, stageIn, dedupIn, dedupOut,
                response, pending>>

\* DOMContentLoaded: app.init() runs up to the fetch of loadInitialData, or
\* to its end when initUI throws
InitCall ==
    /\ app.pc = "constructed"
    /\ app' = init_call(app)
    /\ history' = IF app'.pc = "resolved"
                  THEN Append(history, Resolved(app'))
                  ELSE history
    /\ AppUnchanged

\* the fetch of loadInitialData settles and the promise of app.init() resolves
InitSettle ==
    /\ app.pc = "loading"
    /\ \E f \in app.fetches :
           /\ f.by = "init"
           /\ app' = init_settle(app, f)
    /\ history' = Append(history, Resolved(app'))
    /\ AppUnchanged

\* a retry timer fires
RetryFire ==
    /\ app.pc # "absent"
    /\ \E i \in 1..Len(app.timers) : app' = handleRetry_call(app, i)
    /\ UNCHANGED history
    /\ AppUnchanged

\* the fetch of a retry settles
RetrySettle ==
    /\ app.pc # "absent"
    /\ \E f \in app.fetches :
           /\ f.by = "retry"
           /\ app' = handleRetry_settle(app, f)
    /\ UNCHANGED history
    /\ AppUnchanged

\* the refresh button, the online event, a visibility change, the
\* auto-refresh timer or a DATA_UPDATED message asks for a refresh
RefreshCall ==
    /\ app.pc = "resolved"
    /\ app.listening
    /\ app.refreshes < MaxRefreshes
    /\ ~app.isLoading
    /\ app' = refreshData_call(app)
    /\ UNCHANGED history
    /\ AppUnchanged

\* the fetch of a refresh settles
RefreshSettle ==
    /\ app.pc # "absent"
    /\ \E f \in app.fetches :
           /\ f.by = "refresh"
           /\ app' = refreshData_settle(app, f)
    /\ UNCHANGED history
    /\ AppUnchanged

AppNext ==
    \/ InitCall
    \/ InitSettle
    \/ RetryFire
    \/ RetrySettle
    \/ RefreshCall
    \/ RefreshSettle

AppSpec == AppInit /\ [][AppNext]_vars

-----------------------------------------------------------------------------
(* DataHandler.getSignalsForDate called on loaded data *)

MaxLoaded == 2      \* signals held in DataHandler.data

\* Date values of loaded signals: plain dates, ISO timestamps, the word
\* today, the empty string, a string that starts with 'T', null and a number
LoadedDates ==
    {JsString(<<"2024-01-01">>), JsString(<<"2024-01-02">>),
     JsString(<<"2024-01-01", "00:00:00.000Z">>),
     JsString(<<"2024-01-02", "12:34:56.789Z">>),
     JsString(<<"today">>), JsString(<<"">>), JsString(<<"", "2024-01-01">>),
     JsNull, JsNumber(1)}

\* loaded signals, the last one without a Date
LoadedSignals ==
    {[Ticker |-> "AAA", Date |-> d] : d \in LoadedDates} \cup {[Ticker |-> "AAA"]}

\* arguments of getSignalsForDate
DateArgs ==
    {JsString(<<"2024-01-01">>), JsString(<<"2024-01-02">>),
     JsString(<<"2024-01-01", "00:00:00.000Z">>),
     JsString(<<"today">>), JsString(<<"">>), JsUndefined}

DateInit ==
    /\ source = [t \in TabNames |-> Table(<<>>)]
    /\ archive = NoSheet
    /\ ledger = NoSheet
    /\ today = StartDay
    /\ run = NoRun
    /\ stageIn = <<>>
    /\ dedupIn = <<>>
    /\ dedupOut = NotDeduped
    /\ history = <<>>
    /\ response = NoResponse
    /\ pending = <<>>
    /\ \E data \in BoundedSeqs(LoadedSignals, MaxLoaded),
          todayDate \in {JsString(<<"2024-01-01">>), JsString(<<"2024-01-02">>)} :
           app = [pc |-> "handler", data |-> data, todayDate |-> todayDate,
                  asked |-> FALSE, date |-> JsUndefined, before |-> data,
                  returned |-> <<>>]

\* one call of dataHandler.getSignalsForDate
GetSignalsForDate ==
    /\ app.pc = "handler"
    /\ \E date \in DateArgs :
           LET r == getSignalsForDate(app.data, date, app.todayDate)
           IN  app' = [app EXCEPT !.asked = TRUE, !.date = date, !.before = app.data,
                                  !.data = r.data, !.returned = r.returned]
    /\ UNCHANGED <<source, archive, ledger, today, run, stageIn, dedupIn, dedupOut,
                   history, response, pending>>

DateNext == GetSignalsForDate

DateSpec == DateInit /\ [][DateNext]_vars

-----------------------------------------------------------------------------
(* Two executions of syncData_web at once: the scheduled trigger and a       *)
(* manual testSync, each past its filter, interleaved one Spreadsheet call   *)
(* at a time on an archive sheet that already exists                         *)

Triggers == {"scheduled", "manual"}

\* the validated rows of the two executions
OverlapInputs ==
    LET row(tk) == EnrichedRow(SignalRow(tk, "BUY", DateObj(1), Num(12), Num(50), "s"),
                               TechRow(tk, Num(10)), FundRow(tk), SentimentRow, NameRows,
                               DayStr(StartDay))
    IN  {[scheduled |-> <<row("AAPL")>>, manual |-> <<row("MSFT")>>],
         [scheduled |-> <<row("AAPL"), row("MSFT")>>, manual |-> <<row("GOOGL")>>]}

OverlapArchives ==
    {ar \in InitialArchives : ar.exists} \cup
    {[exists |-> TRUE,
      grid |-> <<HeaderRow, ArchivedRow("AAPL", StartDay - 45),
                 ArchivedRow("MSFT", StartDay - 31)>>]}

OverlapInit ==
    /\ source = [t \in TabNames |-> Table(<<>>)]
    /\ archive \in OverlapArchives
    /\ ledger = NoSheet
    /\ today = StartDay
    /\ run = [e \in Triggers |-> [pc |-> "saveToArchive", lastRow |-> 0,
                                  rowsToDelete |-> <<>>, before |-> archive]]
    /\ stageIn \in OverlapInputs
    /\ dedupIn = <<>>
    /\ dedupOut = NotDeduped
    /\ history = <<>>
    /\ response = NoResponse
    /\ pending = <<>>
    /\ app = NoApp

OverlapUnchanged ==
    UNCHANGED <<source, ledger, today, stageIn, dedupIn, dedupOut, history, response,
                pending, app>>

\* saveToArchive: archiveSheet.getLastRow()
OverlapGetLastRow ==
    \E e \in Triggers :
        /\ run[e].pc = "saveToArchive"
        /\ run' = [run EXCEPT ![e].pc = "setValues", ![e].lastRow = Len(archive.grid)]
        /\ UNCHANGED archive
        /\ OverlapUnchanged

\* saveToArchive: getRange(lastRow + 1, ...).setValues(rowsToAdd)
OverlapSetValues ==
    \E e \in Triggers :
        /\ run[e].pc = "setValues"
        /\ archive' = [archive EXCEPT
                          !.grid = SetValues(archive.grid, run[e].lastRow + 1,
                                             RowsToAdd(stageIn[e]))]
        /\ run' = [run EXCEPT ![e].pc = "cleanOldArchiveData"]
        /\ OverlapUnchanged

\* cleanOldArchiveData: getValues and the loop that fills rowsToDelete
OverlapCollectOldRows ==
    \E e \in Triggers :
        /\ run[e].pc = "cleanOldArchiveData"
        /\ run' = [run EXCEPT
                      ![e].pc = "deleteRow",
                      ![e].rowsToDelete =
                          RowsToDelete(archive.grid, DateColumn(archive.grid),
                                       DayStr(today - RetentionDays), Len(archive.grid))]
        /\ UNCHANGED archive
        /\ OverlapUnchanged

\* cleanOldArchiveData: one archiveSheet.deleteRow(rowIndex); a row number
\* below the sheet's last row throws and ends the execution
OverlapDeleteRow ==
    \E e \in Triggers :
        /\ run[e].pc = "deleteRow"
        /\ run[e].rowsToDelete # <<>>
        /\ IF Head(run[e].rowsToDelete) > Len(archive.grid)
           THEN /\ run' = [run EXCEPT ![e].pc = "Failed"]
                /\ UNCHANGED archive
           ELSE /\ archive' = [archive EXCEPT
                                  !.grid = DeleteRow(archive.grid, Head(run[e].rowsToDelete))]
                /\ run' = [run EXCEPT ![e].rowsToDelete = Tail(@)]
        /\ OverlapUnchanged

\* the try block of syncData_web reaches its end
OverlapFinish ==
    \E e \in Triggers :
        /\ run[e].pc = "deleteRow"
        /\ run[e].rowsToDelete = <<>>
        /\ run' = [run EXCEPT ![e].pc = "Done"]
        /\ UNCHANGED archive
        /\ OverlapUnchanged

OverlapNext ==
    \/ OverlapGetLastRow
    \/ OverlapSetValues
    \/ OverlapCollectOldRows
    \/ OverlapDeleteRow
    \/ OverlapFinish

OverlapSpec == OverlapInit /\ [][OverlapNext]_vars

-----------------------------------------------------------------------------
(* The service worker: fetch and sync events handled one await at a time *)

MaxRequests == 2    \* fetch and sync events the worker receives

\* request URLs: one that is cached from the start and two that are not
ApiUrls == {1, DATA_CACHE_LIMIT + 1, DATA_CACHE_LIMIT + 2}

\* the URL of performBackgroundSync, API_ENDPOINTS[0]
SyncUrl == 1

WorkerInit ==
    /\ source = [t \in TabNames |-> Table(<<>>)]
    /\ archive = NoSheet
    /\ ledger = NoSheet
    /\ today = StartDay
    /\ run = NoRun
    /\ stageIn = <<>>
    /\ dedupIn = <<>>
    /\ dedupOut = NotDeduped
    /\ history = <<>>
    /\ response = NoResponse
    /\ pending = <<>>
    /\ \E n \in {0, DATA_CACHE_LIMIT - 1, DATA_CACHE_LIMIT} :
           app = [pc |-> "worker", cache |-> [k \in 1..n |-> k], jobs |-> {},
                  started |-> 0]

WorkerUnchanged ==
    UNCHANGED <<source, archive, ledger, today, run, stageIn, dedupIn, dedupOut, history,
                response, pending>>

\* job j of the worker moves on to j2, or ends when j2.pc is "done"
Step(j, j2, cache) ==
    app' = [app EXCEPT !.cache = cache,
                       !.jobs = (@ \ {j}) \cup (IF j2.pc = "done" THEN {} ELSE {j2})]

\* a fetch event for an API URL: handleApiRequest starts and awaits fetch
FetchEvent ==
    /\ app.pc = "worker"
    /\ app.started < MaxRequests
    /\ \E url \in ApiUrls :
           app' = [app EXCEPT !.started = @ + 1,
                              !.jobs = @ \cup {NewJob(app.started + 1, "api", url)}]
    /\ WorkerUnchanged

\* a sync event tagged background-sync: performBackgroundSync starts
SyncEvent ==
    /\ app.pc = "worker"
    /\ app.started < MaxRequests
    /\ app' = [app EXCEPT !.started = @ + 1,
                          !.jobs = @ \cup {NewJob(app.started + 1, "sync", SyncUrl)}]
    /\ WorkerUnchanged

\* handleApiRequest: fetch settles. A response that is not OK is returned as
\* it is, a rejection is answered from the cache or with a 503
ApiFetched ==
    /\ app.pc = "worker"
    /\ \E j \in app.jobs, outcome \in {"ok", "notOk", "rejects"} :
           /\ j.kind = "api" /\ j.pc = "fetch"
           /\ Step(j, [j EXCEPT !.pc = IF outcome = "ok" THEN "put" ELSE "done"], app.cache)
    /\ WorkerUnchanged

\* performBackgroundSync: fetch settles; with an OK response the body is
\* read by response.json() and response.clone() is called next
SyncFetched ==
    /\ app.pc = "worker"
    /\ \E j \in app.jobs, outcome \in {"ok", "notOk", "rejects"} :
           /\ j.kind = "sync" /\ j.pc = "fetch"
           /\ Step(j, [j EXCEPT !.pc = IF outcome = "ok" /\ CloneAfterJson
                                       THEN "put" ELSE "done"], app.cache)
    /\ WorkerUnchanged

\* cache.put(request, response.clone())
Put ==
    /\ app.pc = "worker"
    /\ \E j \in app.jobs :
           /\ j.pc = "put"
           /\ Step(j, [j EXCEPT !.pc = "keys"], CachePut(app.cache, j.url))
    /\ WorkerUnchanged

\* trimDataCache: cache.keys() and the test of its length
TrimKeys ==
    /\ app.pc = "worker"
    /\ \E j \in app.jobs :
           /\ j.pc = "keys"
           /\ Step(j, IF Excess(app.cache) = 0 THEN [j EXCEPT !.pc = "done"]
                      ELSE [j EXCEPT !.pc = "delete", !.keys = app.cache, !.i = 0,
                                     !.excess = Excess(app.cache)],
                   app.cache)
    /\ WorkerUnchanged

\* trimDataCache: one cache.delete(keys[i]) of the loop
TrimDelete ==
    /\ app.pc = "worker"
    /\ \E j \in app.jobs :
           /\ j.pc = "delete"
           /\ j.i < j.excess
           /\ Step(j, [j EXCEPT !.i = @ + 1], CacheDelete(app.cache, j.keys[j.i + 1]))
    /\ WorkerUnchanged

\* trimDataCache: the loop ends and the execution with it
TrimDone ==
    /\ app.pc = "worker"
    /\ \E j \in app.jobs :
           /\ j.pc = "delete"
           /\ j.i >= j.excess
           /\ Step(j, [j EXCEPT !.pc = "done"], app.cache)
    /\ WorkerUnchanged

WorkerNext ==
    \/ FetchEvent
    \/ SyncEvent
    \/ ApiFetched
    \/ SyncFetched
    \/ Put
    \/ TrimKeys
    \/ TrimDelete
    \/ TrimDone

WorkerSpec == WorkerInit /\ [][WorkerNext]_vars

----------------------------------------------------------------------------
(* Vocabulary of the properties *)

Range(seq) == {seq[i] : i \in 1..Len(seq)}

Ran == run.outcome # "none"

\* the data rows of an archive sheet, below its header
DataRows(ar) == IF ar.exists /\ Len(ar.grid) > 0 THEN SubSeq(ar.grid, 2, Len(ar.grid)) ELSE <<>>

\* the rows saveToArchive placed below the rows that were there before the run
AddedRows == SubSeq(DataRows(run.preSweep), Len(DataRows(run.before)) + 1,
                    Len(DataRows(run.preSweep)))

Column(name) == CHOOSE c \in 1..Len(ArchiveHeaders) : ArchiveHeaders[c] = name

\* a Spreadsheet call threw during the run
FaultFired ==
    run.stageError \in {SourceFault, ArchiveFault} \/ run.raised = LedgerFault

\* the ledger holds exactly its earlier rows followed by one new record
OneNewLedgerRecord ==
    /\ ledger.exists
    /\ LedgerRecords(ledger) = LedgerRecords(run.ledgerBefore) + 1
    /\ run.ledgerBefore.exists =>
          SubSeq(ledger.grid, 1, Len(run.ledgerBefore.grid)) = run.ledgerBefore.grid

\* every source table exists and the sentiment table has a row
SourcesComplete ==
    /\ \A t \in TabNames : source[t].exists
    /\ Len(source.sentiment.rows) > 0

\* the enriched rows the run's sources call for: the merge of the
\* deduplicated BUY signals, dated with the run's dateString
IntendedRows ==
    MergeRows(removeDuplicateTickers(getFinalSignals(source).val),
              getTechnicalData(source).val, getFundamentals(source).val,
              getMarketSentiment(source).val, getCompanyNameMap(source).val,
              DayStr(today))

\* timestamp order with an unparsable timestamp below every parsable one
TimestampGeq(a, b) ==
    \/ ~NewDate(b).valid
    \/ NewDate(a).valid /\ NewDate(a).ms >= NewDate(b).ms

----------------------------------------------------------------------------
(* Properties *)

\* C1: a run in which a stage raises a fatal error appends exactly one new
\* record to the error ledger, leaves the earlier ledger records unchanged and
\* re-raises the same error to its caller.
C1_FailedRunLoggedOnceAndReraised ==
    run.outcome = "Failed" =>
        /\ OneNewLedgerRecord
        /\ run.raised = run.stageError

C4_RejectedRowDoesNotAbort ==
    (Ran /\ ~FaultFired /\ SourcesComplete
         /\ \E i \in 1..Len(IntendedRows) : RowPasses(IntendedRows[i]))
    => /\ run.outcome = "Done"
       /\ run.raised = "none"
       /\ AddedRows = RowsToAdd(SelectSeq(IntendedRows, RowPasses))

\* C5: after a successful run the number of rows the run added to the archive
\* equals the number of enriched rows that passed the per-row filter, and no
\* row the filter rejected is among the rows added.
C5_AddedRowsAreThePassingRows ==
    run.outcome = "Done" =>
        /\ Len(AddedRows) = Cardinality({i \in 1..Len(stageIn) : RowPasses(stageIn[i])})
        /\ \A i \in 1..Len(stageIn) :
              ~RowPasses(stageIn[i]) => RowValues(stageIn[i]) \notin Range(AddedRows)
        /\ Len(DataRows(archive)) >= Len(AddedRows)
        /\ SubSeq(DataRows(archive), Len(DataRows(archive)) - Len(AddedRows) + 1,
                  Len(DataRows(archive))) = AddedRows

\* a successful run whose merge output held a passing and a rejected row
C5_Witness ==
    /\ run.outcome = "Done"
    /\ \E i, j \in 1..Len(stageIn) : RowPasses(stageIn[i]) /\ ~RowPasses(stageIn[j])
    /\ Len(AddedRows) = 1

\* C6: removeDuplicateTickers returns at most one record per ticker, keeps
\* every ticker of its input, and the record kept for a ticker has a timestamp
\* greater than or equal to that of every input record of the ticker.
C6_DedupKeepsLatestPerTicker ==
    dedupOut.done =>
        /\ \A i, j \in 1..Len(dedupOut.out) :
              dedupOut.out[i].ticker = dedupOut.out[j].ticker => i = j
        /\ \A s \in Range(dedupIn) : \E r \in Range(dedupOut.out) : r.ticker = s.ticker
        /\ \A r \in Range(dedupOut.out) : \A s \in Range(dedupIn) :
              r.ticker = s.ticker => TimestampGeq(r.timestamp, s.timestamp)

\* C7: when a ticker has a record with a parsable timestamp and one with an
\* unparsable timestamp, removeDuplicateTickers keeps a record with a parsable
\* timestamp, in whatever order the records appear.
C7_ParsableTimestampWins ==
    dedupOut.done =>
        \A r \in Range(dedupOut.out) :
            (\E s \in Range(dedupIn) : s.ticker = r.ticker /\ NewDate(s.timestamp).valid)
            => NewDate(r.timestamp).valid

C9_AllRowsRejectedIsFatal ==
    (Ran /\ ~FaultFired /\ SourcesComplete /\ Len(IntendedRows) > 0
         /\ \A i \in 1..Len(IntendedRows) : ~RowPasses(IntendedRows[i]))
    => /\ run.outcome = "Failed"
       /\ run.raised = "No valid signals after validation"
       /\ OneNewLedgerRecord
       /\ "saveToArchive" \notin Range(run.trace)
       /\ "cleanOldArchiveData" \notin Range(run.trace)
       /\ archive = run.before

\* C10: a valid BUY signal whose ticker has no technical record is archived:
\* the run succeeds and adds a row for the ticker whose CurrentPrice and RSI
\* are empty and whose Upside is null.
C10_MissingTechnicalStillArchived ==
    (Ran /\ ~FaultFired /\ SourcesComplete)
    => \A i \in 1..Len(IntendedRows) :
          (RowPasses(IntendedRows[i])
           /\ LookupOrEmpty(getTechnicalData(source).val, IntendedRows[i].Ticker) = <<>>)
          => /\ run.outcome = "Done"
             /\ \E r \in Range(AddedRows) :
                   /\ r[Column("Ticker")] = IntendedRows[i].Ticker
                   /\ r[Column("CurrentPrice")] = Blank
                   /\ r[Column("RSI")] = Blank
                   /\ r[Column("Upside")] = Blank

C12_PreMergeGateFailureAborts ==
    (Ran /\ run.stageError # SourceFault /\ ReadSources(source, "none").err = "none")
    => LET finalSignals == getFinalSignals(source).val
           gateFails == \/ Len(finalSignals) = 0
                        \/ \E field \in {"ticker", "decision", "sellTarget", "confidence",
                                         "riskLevel", "summary"} :
                              ~HasOwnProperty(finalSignals[1], field)
       IN  /\ (run.trace = <<"read", "validateData">>) <=> gateFails
           /\ gateFails =>
                 /\ run.outcome = "Failed"
                 /\ run.stageError =
                       "Data validation failed - missing required fields or invalid data"
                 /\ archive = run.before
                 /\ OneNewLedgerRecord
                 /\ run.raised = run.stageError

\* a value that is there: not undefined, not null, not the blank cell
Present(v) == v.t \notin {"undef", "null"} /\ v # Blank

OlderThanCutoff(r) ==
    r[Column("Date")].t = "day" /\ r[Column("Date")].n < today - RetentionDays

DatesOf(rows) == {rows[i][Column("Date")] : i \in 1..Len(rows)}

TwoCompletedInARow ==
    /\ Len(history) >= 2
    /\ history[Len(history)].err = "none"
    /\ history[Len(history) - 1].err = "none"

\* C15: the retention sweep is idempotent: when cleanOldArchiveData runs twice
\* in a row on the same day with no write in between, the second sweep leaves
\* the archive exactly as the first one left it.
C15_SweepIdempotent ==
    TwoCompletedInARow => archive = history[Len(history)].before

\* two sweeps in a row, the first of which deleted rows
C15_Witness ==
    /\ TwoCompletedInARow
    /\ history[Len(history) - 1].before # history[Len(history)].before
    /\ archive = history[Len(history)].before

\* saveToArchive was called in the run and returned normally
SaveReturned == "cleanOldArchiveData" \in Range(run.trace)

\* C16: saveToArchive only appends: the header and every data row that was in
\* the archive before are unchanged and in the same positions afterwards, and
\* the new rows follow the previous last row contiguously, in the order of the
\* validated input.
C16_SaveOnlyAppends ==
    "saveToArchive" \in Range(run.trace) =>
        LET old  == IF run.before.exists THEN run.before.grid ELSE <<>>
            new  == run.preSweep.grid
            last == IF run.before.exists THEN Len(old) ELSE 1
        IN  /\ Len(new) >= Len(old)
            /\ SubSeq(new, 1, Len(old)) = old
            /\ SaveReturned =>
                  /\ Len(new) = last + Len(run.validated)
                  /\ \A i \in 1..Len(run.validated) :
                        new[last + i] = RowValues(run.validated[i])

\* two validated rows were appended below an archive that already held rows
C16_Witness ==
    /\ SaveReturned
    /\ run.before.exists
    /\ Len(DataRows(run.before)) > 0
    /\ Len(run.validated) = 2
    /\ Len(run.preSweep.grid) = Len(run.before.grid) + 2

\* the rows of a sheet that hold the archive header
HeaderRowsOf(ar) == {i \in 1..Len(ar.grid) : ar.grid[i] = HeaderRow}

C18_AppendedRowsUniquePerDateAndTicker ==
    Ran =>
        \A i, j \in 1..Len(AddedRows) :
            (AddedRows[i][Column("Date")] = AddedRows[j][Column("Date")]
             /\ AddedRows[i][Column("Ticker")] = AddedRows[j][Column("Ticker")])
            => i = j

\* a run whose signals held two records of one ticker appended a row for it
C18_Witness ==
    /\ run.outcome = "Done"
    /\ \E i, j \in 1..Len(source.signals.rows) :
          i # j /\ source.signals.rows[i].ticker = source.signals.rows[j].ticker
                /\ \E k \in 1..Len(AddedRows) :
                      AddedRows[k][Column("Ticker")] = source.signals.rows[i].ticker

\* C19: the merge produces its rows from the run that called it, each with
\* the run's dateString (today as yyyy-MM-dd) in its Date field, and so does
\* every row the run appends to the archive.
C19_MergedRowsCarryRunDate ==
    (Ran /\ ~FaultFired /\ SourcesComplete /\ Len(getFinalSignals(source).val) > 0)
    => /\ run.stageError # "ReferenceError: dateString is not defined"
       /\ Len(run.enriched) = Len(removeDuplicateTickers(getFinalSignals(source).val))
       /\ \A i \in 1..Len(run.enriched) : run.enriched[i].Date = DayStr(today)
       /\ \A r \in Range(AddedRows) : r[Column("Date")] = DayStr(today)

\* C20: a failure of the error ledger does not cascade: when recording the
\* error fails, logSyncError does not raise and the caller of the failed run
\* still receives the pipeline's own error.
C20_LedgerFailureDoesNotCascade ==
    run.outcome = "Failed" =>
        /\ run.raised # LedgerFault
        /\ run.raised = run.stageError

\* a doGet call has been answered
Answered == response.kind # "none"

\* C21: when the archive sheet does not exist, doGet returns a JSON response
\* whose body is exactly {error: 'Archive data not found'}; it does not raise
\* and it creates or modifies no sheet.
C21_MissingArchiveAnswer ==
    /\ [](Answered /\ response.fault = "none" /\ ~response.read.exists
            => /\ response.kind = "returned"
               /\ response.mime = "JSON"
               /\ response.body = [error |-> "Archive data not found"])
    /\ [][response' # response => archive' = archive /\ ledger' = ledger]_vars

\* doGet was called while there was no archive sheet
C21_Witness ==
    /\ Answered
    /\ response.fault = "none"
    /\ ~response.read.exists
    /\ ~archive.exists
    /\ response.body = [error |-> "Archive data not found"]

\* C22: when the archive exists doGet returns success = true and data holding
\* one mapping per archive data row, in archive order, none filtered,
\* reordered or truncated, each keyed by the header names; doGet never
\* modifies the archive.
C22_ExistingArchiveReturnedWhole ==
    /\ [](Answered /\ response.fault = "none" /\ response.read.exists
            => /\ response.kind = "returned"
               /\ "success" \in DOMAIN response.body
               /\ response.body.success = TRUE
               /\ Len(response.body.data) = Len(DataRows(response.read))
               /\ \A i \in 1..Len(response.body.data) :
                     \A c \in 1..Len(ArchiveHeaders) :
                        /\ ArchiveHeaders[c] \in DOMAIN response.body.data[i]
                        /\ response.body.data[i][ArchiveHeaders[c]] =
                              ToJson(DataRows(response.read)[i][c]))
    /\ [][response' # response => archive' = archive]_vars

\* C23: doGet never surfaces an internal exception: whatever fails while it
\* opens or reads the archive or builds the response, it returns a JSON
\* payload with an error field as a normal response.
C23_NoExceptionSurfaces ==
    Answered =>
        /\ response.kind = "returned"
        /\ response.mime = "JSON"
        /\ (response.fault = "open" \/ (response.fault = "read" /\ response.read.exists)) =>
              /\ DOMAIN response.body = {"error", "details"}
              /\ response.body.details = ArchiveFault

\* a Spreadsheet call failed while doGet was reading an existing archive
C23_Witness ==
    /\ Answered
    /\ response.fault = "read"
    /\ response.read.exists
    /\ response.kind = "returned"
    /\ response.body.error = "Failed to fetch data"

\* C24: every response of doGet, on the success path, the missing-archive
\* path and the internal-error path, carries Access-Control-Allow-Origin: *
\* and Access-Control-Allow-Methods: GET.
C24_EveryResponseHasCorsHeaders ==
    Answered =>
        {<<"Access-Control-Allow-Origin", "*">>, <<"Access-Control-Allow-Methods", "GET">>}
            \subseteq response.headers

\* C25: the sentiment reader returns one record, the last row of the
\* sentiment table whatever the dates of its rows, and the merge puts that
\* record's fields unmodified into every enriched row, so all rows of a run
\* carry the same sentiment fields.
C25_LastSentimentRowOnEveryRow ==
    Ran =>
        LET rows == source.sentiment.rows
            last == rows[Len(rows)]
        IN  /\ getMarketSentiment(source) = Ok(last)
            /\ \A i \in 1..Len(stageIn) :
                  /\ stageIn[i].MarketMood = last.marketMood
                  /\ stageIn[i].MacroStrength = last.macroStrength
                  /\ stageIn[i].VolatilityLevel = last.volatilityLevel
                  /\ stageIn[i].SentimentSummary = last.summary
                  /\ stageIn[i].SentimentDate = last.date
            /\ \A r \in Range(AddedRows) :
                  /\ r[Column("MarketMood")] = last.marketMood
                  /\ r[Column("SentimentDate")] = last.date

\* two rows were merged while the last sentiment row was not the latest one
C25_Witness ==
    /\ Ran
    /\ Len(stageIn) >= 2
    /\ Len(AddedRows) >= 2
    /\ Len(source.sentiment.rows) >= 2
    /\ source.sentiment.rows[Len(source.sentiment.rows)].date.n < source.sentiment.rows[1].date.n
    /\ stageIn[1].SentimentDate = source.sentiment.rows[Len(source.sentiment.rows)].date

\* C26: the signals reader keeps exactly the source rows whose decision is
\* "BUY" and whose ticker is not empty, in source order; so every row a run
\* appends to the archive has Decision "BUY" and a non-empty Ticker.
C26_OnlyBuyRowsWithTicker ==
    Ran =>
        /\ getFinalSignals(source).val =
              SelectSeq(source.signals.rows,
                        LAMBDA row : row.decision = Txt("BUY") /\ row.ticker # Blank)
        /\ \A r \in Range(AddedRows) :
              r[Column("Decision")] = Txt("BUY") /\ r[Column("Ticker")] # Blank

\* a run whose signals held a BUY row and a row the reader drops appended
\* the BUY row only
C26_Witness ==
    /\ run.outcome = "Done"
    /\ Len(source.signals.rows) = 2
    /\ \E i \in 1..2 : \/ source.signals.rows[i].decision # Txt("BUY")
                       \/ source.signals.rows[i].ticker = Blank
    /\ Len(AddedRows) = 1

\* the first source tab, in reading order, that does not exist ("" if none)
FirstMissingTab ==
    IF ~source.signals.exists THEN SourceTabs.FINAL_SIGNALS
    ELSE IF ~source.technical.exists THEN SourceTabs.TECHNICAL
    ELSE IF ~source.fundamentals.exists THEN SourceTabs.FUNDAMENTALS
    ELSE IF ~source.sentiment.exists THEN SourceTabs.SENTIMENT
    ELSE IF ~source.names.exists THEN SourceTabs.COMPANY_NAMES
    ELSE ""

\* C27: when one of the five source tabs does not exist, its reader fails
\* with a source-not-found error, the run stops before validation and merge,
\* the archive is unchanged, and the error is recorded in the ledger and
\* re-raised.
C27_MissingSourceAborts ==
    (Ran /\ run.stageError # SourceFault /\ FirstMissingTab # ""
         /\ (FirstMissingTab = SourceTabs.COMPANY_NAMES => Len(source.sentiment.rows) > 0))
    => /\ run.outcome = "Failed"
       /\ run.stageError = "Source tab not found: " \o FirstMissingTab
       /\ run.trace = <<"read">>
       /\ archive = run.before
       /\ OneNewLedgerRecord
       /\ run.raised = run.stageError

WrittenRows ==
    Range(DataRows(run.before)) \cup {RowValues(stageIn[i]) : i \in 1..Len(stageIn)}

C30_RetriesDoneWhenInitResolves ==
    \A i \in 1..Len(history) :
        (history[i].op = "init" /\ app.loaded /\ app.plan <= maxRetries)
            => /\ history[i].fetchCalls = app.plan + 1
               /\ history[i].isInitialized

\* C31: if the data fetch of app.init() fails and no cached data is
\* available, then when init() has resolved app.isInitialized is false, the
\* loading screen is hidden and the error banner is visible
C31_FailedLoadLeavesAppUninitialized ==
    \A i \in 1..Len(history) :
        (history[i].op = "init" /\ app.loaded /\ app.plan >= 1 /\ app.failure = "network"
             /\ app.cached = 0)
            => /\ ~history[i].isInitialized
               /\ ~history[i].loadingShown
               /\ history[i].errorShown

\* the date a call of getSignalsForDate asks for: today's date when the
\* argument is missing, empty or the word today
RequestedDate == 
    IF app.date \in {JsUndefined, JsString(<<"">>), JsString(<<"today">>)}
    THEN app.todayDate ELSE app.date

\* the signal has a Date, and the part of it before any 'T' is date
DateMatches(signal, date) ==
    /\ "Date" \in DOMAIN signal
    /\ signal.Date \notin {JsNull, JsString(<<"">>)}
    /\ IF signal.Date.t = "string"
       THEN Head(signal.Date.pieces) = Head(date.pieces) /\ Len(date.pieces) = 1
       ELSE signal.Date = date

\* C32: getSignalsForDate(date) returns exactly the loaded signals whose
\* Date, cut before any 'T', equals the requested date, in their order;
\* signals without a Date are left out and the loaded data is not modified
C32_SignalsOfTheRequestedDate ==
    (app.pc = "handler" /\ app.asked)
        => /\ app.returned = SelectSeq(app.before, LAMBDA s : DateMatches(s, RequestedDate))
           /\ app.data = app.before

\* a call that returned an ISO-stamped signal and left out one without Date
C32_Witness ==
    /\ app.pc = "handler" /\ app.asked
    /\ \E i \in 1..Len(app.returned) :
           Len(app.returned[i].Date.pieces) = 2
    /\ \E i \in 1..Len(app.before) : "Date" \notin DOMAIN app.before[i]

\* the rows the archive has to hold once both executions are done: the rows
\* of the archive as it was that are not older than the cutoff, and the
\* validated rows of both executions
RowsDue ==
    {r \in Range(DataRows(run["scheduled"].before)) : ~OlderThanCutoff(r)}
        \cup UNION {Range(RowsToAdd(stageIn[e])) : e \in Triggers}

LatestOf(tk) ==
    LET valid == {i \in 1..Len(dedupIn) :
                     dedupIn[i].ticker = tk /\ NewDate(dedupIn[i].timestamp).valid}
    IN  {i \in valid : \A j \in valid :
            NewDate(dedupIn[i].timestamp).ms >= NewDate(dedupIn[j].timestamp).ms}

\* dedupIn without its record at position j
WithoutRecord(j) == SubSeq(dedupIn, 1, j - 1) \o SubSeq(dedupIn, j + 1, Len(dedupIn))

\* C34: when several records of a ticker share its latest valid timestamp,
\* removeDuplicateTickers keeps the first of them in input order, and its
\* result is the same without any of the later ones
C34_FirstOfTiedLatestKept ==
    dedupOut.done =>
        \A s \in Range(dedupIn) :
            LET tied == LatestOf(s.ticker)
                first == CHOOSE i \in tied : \A j \in tied : i <= j
            IN  Cardinality(tied) >= 2 =>
                    /\ dedupIn[first] \in Range(dedupOut.out)
                    /\ \A j \in tied \ {first} :
                           removeDuplicateTickers(WithoutRecord(j)) = dedupOut.out

\* every source table exists, the sentiment table has no data row and the
\* FinalSignals table holds a valid BUY signal
EmptySentiment ==
    /\ \A t \in TabNames : source[t].exists
    /\ Len(source.sentiment.rows) = 0
    /\ SignalRow("AAPL", "BUY", DateObj(1), Num(12), Num(50), "s")
           \in Range(source.signals.rows)

\* C35: a sentiment table without data rows is not fatal: the run reaches
\* Done and archives the valid signals with empty sentiment fields
C35_EmptySentimentIsNotFatal ==
    (Ran /\ ~FaultFired /\ EmptySentiment)
        => /\ run.outcome = "Done"
           /\ Len(AddedRows) > 0
           /\ \A r \in Range(AddedRows) : r[Column("MarketMood")] = Blank

\* the fetch of a retry is in flight
RetryInFlight == \E f \in app.fetches : f.by = "retry"

\* C36: retryCount never exceeds maxRetries; at most maxRetries retries are
\* ever scheduled; once the last of them has failed the error state has been
\* shown, exactly once, and no retry is scheduled or running after that
C36_RetriesBoundedAndTerminate ==
    /\ app.retryCount <= maxRetries
    /\ app.scheduled <= maxRetries
    /\ app.errorCalls <= 1
    /\ (app.retryCount = maxRetries /\ app.timers = <<>> /\ ~RetryInFlight)
          => app.errorCalls = 1
    /\ app.errorCalls = 1
          => app.timers = <<>> /\ ~RetryInFlight /\ app.scheduled = maxRetries

\* every retry failed and the error state was shown
C36_Witness ==
    /\ app.errorCalls = 1
    /\ app.scheduled = maxRetries
    /\ app.errorShown

\* C37: at most one dataHandler.fetchData call is in flight at any time
C37_OneFetchInFlight == Cardinality(app.fetches) <= 1

\* C38: whenever fetchData fails, the handler's data and filteredData are
\* empty, lastUpdated is null, isLoading is false and the error is thrown to
\* the caller; a failed refreshData returns false
C38_FailedFetchLeavesNothing ==
    (app.settled.by # "none" /\ app.settled.outcome \in FetchFailures)
        => /\ app.settled.data = 0
           /\ app.settled.filteredData = 0
           /\ ~app.settled.lastUpdated
           /\ ~app.settled.isLoading
           /\ app.settled.threw
           /\ app.settled.by = "refresh" => app.settled.returned = FALSE

\* a refresh failed after signals had been loaded
C38_Witness ==
    /\ app.settled.by = "refresh"
    /\ app.settled.outcome \in FetchFailures
    /\ app.settled.had > 0

\* the URLs listed in the data cache
Cached == Range(app.cache)

====
